---- MODULE Spec2Model ----
(***************************************************************************)
(* Model of the subfile exchange: the chunked, verified, multi-endpoint    *)
(* downloader (subfile-exchange/src/subfile_client/mod.rs) and the startup *)
(* of the subfile server (subfile-exchange/src/subfile_server/mod.rs).     *)
(*                                                                         *)
(* Strings are modelled as sequences of tokens, so that `a + b` of the     *)
(* source is sequence concatenation: the base url of endpoint e is <<e>>   *)
(* and the url of a chunk request is <<e, "/subfiles/id/", ipfs_hash>>.    *)
(* A file is a sequence of bytes; byte k of the source (counted from 0)    *)
(* is element k+1 of the sequence.                                         *)
(***************************************************************************)
EXTENDS Integers, Sequences, FiniteSets, TLC

VARIABLES
    \* ---- configuration of one download session (fixed after Init) ----
    chunk_files,            \* the ChunkFile document of each manifest entry (store content)
    profile,                \* how each endpoint answers chunk requests
    free_query_auth_token,  \* DownloaderArgs.free_query_auth_token: "None" or a token
    chunk_max_retry,        \* DownloaderArgs.max_retry
    \* ---- SubfileDownloader state ----
    indexer_blocklist,      \* Arc<StdMutex<HashSet<String>>>
    chunks_to_download,     \* Arc<Mutex<HashMap<String, HashSet<u64>>>>, keyed by ChunkFile hash
    \* ---- control state of download_subfile / download_chunk_file ----
    pc,                     \* position of the caller's future
    cur,                    \* index (1-based) of the manifest entry being downloaded
    next_i,                 \* loop variable i of the spawning loop
    handle_i,               \* index of the handle being awaited
    failed,                 \* the `failed` vector of download_chunk_file (chunk indices)
    file_results,           \* "ok" or the error of each download_chunk_file call that returned
    result,                 \* what download_subfile returned: "none", "ok" or its error
    \* ---- check_availability ----
    filtered_endpoints,     \* endpoints probed by the running check_availability
    probe,                  \* per endpoint: position/outcome of check_endpoint_availability
    query_endpoints,        \* the endpoints check_availability returned for the current file
    \* ---- chunk tasks and the output files ----
    tasks,                  \* spawned chunk tasks, keyed by <<file index, chunk index>>
    output,                 \* content of <output_dir>/<name>, per file name
    file_lock,              \* holder of the Mutex<File> of each output file
    cursor,                 \* seek position of each output file handle
    write_log,              \* history: the write_all calls on the open output file
    \* ---- subfile server ----
    srv_subfiles,           \* config.subfiles: the manifest hashes to serve, in order
    srv_pc,                 \* position of init_server
    srv_entry,              \* index of the subfile entry being read and verified
    srv_nfiles,             \* number of chunk files of the subfile being verified
    srv_file,               \* index of the chunk file being verified
    srv_cur,                \* the chunk file being verified and the local file's bytes
    srv_i,                  \* loop variable i of the local verification loop
    srv_reads,              \* history: the <<start, end>> ranges read from the local file
    srv_bad,                \* history: manifest hashes with a local chunk off its digest
    server_state,           \* server_state.subfiles: the manifest hashes inserted
    srv_responses,          \* history: bodies of the /status responses sent
    srv_token,              \* config.free_query_auth_token of the server
    srv_exchange,           \* the latest /subfiles/id/ request and its outcome
    srv_operator_public_key, \* ServerState.operator_public_key
    srv_release,            \* ServerState.release
    srv_guard,              \* the Mutex<ServerState>: "free" or "held"
    srv_serving,            \* the /subfiles/id/ request whose file is being served
    srv_reply,              \* the latest response on a route other than /status, /subfiles/id/
    \* ---- subfile publisher ----
    pub_file_names,         \* config.file_names
    pub_chunk_size,         \* config.chunk_size
    pub_pc,                 \* position of publish
    pub_i,                  \* index of the file_name of the loop of hash_and_publish_files
    pub_yaml,               \* the serialized document about to be added
    root_hashes,            \* the root_hashes vector of hash_and_publish_files
    pub_store,              \* history: the documents added to the store and their hashes
    pub_result              \* what publish returned: "none", an error, or the manifest hash

dl_vars == <<chunk_files, profile, free_query_auth_token, chunk_max_retry,
             indexer_blocklist, chunks_to_download, pc, cur, next_i, handle_i,
             failed, file_results, result, filtered_endpoints, probe,
             query_endpoints, tasks, output, file_lock, cursor, write_log>>

srv_vars == <<srv_subfiles, srv_pc, srv_entry, srv_nfiles, srv_file, srv_cur,
              srv_i, srv_reads, srv_bad, server_state, srv_responses,
              srv_token, srv_exchange, srv_operator_public_key, srv_release,
              srv_guard, srv_serving, srv_reply>>

\* The identity of the operator and the release, and the state of the
\* request handlers.
srv_identity == <<srv_operator_public_key, srv_release>>
srv_http == <<srv_exchange, srv_guard, srv_serving, srv_reply>>

pub_vars == <<pub_file_names, pub_chunk_size, pub_pc, pub_i, pub_yaml,
              root_hashes, pub_store, pub_result>>

vars == <<dl_vars, srv_vars, pub_vars>>

(***************************************************************************)
(* Bounds of the model.                                                    *)
(***************************************************************************)
MaxBytes == 4          \* bytes of the published files of one manifest, together
MaxChunkSize == 2      \* largest chunk_size of the publisher
MaxRetryBound == 2     \* largest max_retry of the downloader

\* The file names of the publisher's directory. A manifest lists a prefix of
\* them, or the first name twice.
FileNames == <<"a.bin", "b.bin">>

Endpoints == {"e1", "e2"}
Bytes == 0..2
ipfs_hash == "QmManifest"

Min(a, b) == IF a <= b THEN a ELSE b
Max(a, b) == IF a >= b THEN a ELSE b
CeilDiv(a, b) == (a + b - 1) \div b

(***************************************************************************)
(* Hasher and chunker (crate::file_hasher, not among the sources).         *)
(* The digest is a cryptographic hash: it is modelled as an injective      *)
(* encoding of the byte sequence (collision freedom is the assumption).    *)
(***************************************************************************)
RECURSIVE Digest(_)
Digest(bytes) ==
    IF bytes = <<>> THEN 1
    ELSE Digest(SubSeq(bytes, 1, Len(bytes) - 1)) * (Cardinality(Bytes) + 1)
         + bytes[Len(bytes)] + 1

verify_chunk(data, chunk_hash) == Digest(data) = chunk_hash

\* Bytes start..end (inclusive, 0-based) of a file, clipped to the file.
Slice(bytes, start, end) == SubSeq(bytes, start + 1, Min(end + 1, Len(bytes)))

\* ChunkFile::new: one digest per chunk_size block, the last one may be short.
ChunkFileOf(name, bytes, chunk_size) ==
    [file_name    |-> name,
     total_bytes  |-> Len(bytes),
     chunk_size   |-> chunk_size,
     chunk_hashes |-> [k \in 1..CeilDiv(Len(bytes), chunk_size) |->
                         Digest(Slice(bytes, (k - 1) * chunk_size,
                                      Min(k * chunk_size, Len(bytes)) - 1))]]

\* The <<start, end>> ranges of the chunks of a ChunkFile.
ChunkRanges(cf) ==
    {<<(k - 1) * cf.chunk_size, Min(k * cf.chunk_size, cf.total_bytes) - 1>> :
        k \in 1..CeilDiv(cf.total_bytes, cf.chunk_size)}

\* The n bytes of the published file of that name.
Source(name, n) ==
    [k \in 1..n |-> 1 + ((k + (IF name = FileNames[1] THEN 1 ELSE 2)) % 2)]

\* The published file a ChunkFile was made from.
SourceOf(cf) == Source(cf.file_name, cf.total_bytes)


(***************************************************************************)
(* file_service: the checks of a request on /subfiles/id/<id>.             *)
(***************************************************************************)
\* The manifest hashes a server may be configured with.
SrvHashes == <<"QmA", "QmB">>

\* The status codes of the responses of handle_request and file_service.
UNAUTHORIZED == 401
NOT_FOUND == 404
NOT_ACCEPTABLE == 406

\* format!("Bearer {}", token)
Bearer(token) == <<"Bearer ", token>>

\* An absent header, and an Option<String> that is None, among strings
\* modelled as sequences.
Absent == <<>>

\* ServerState.free_query_auth_token for a configured token.
StoredToken(config_token) ==
    IF config_token = "None" THEN Absent ELSE Bearer(config_token)

\* format!("bytes={}-{}", start, end)
RangeHeader(start, end) == <<"bytes=", start, "-", end>>

\* The Authorization headers tried: absent, the expected one, the bare token,
\* another bearer token.
AuthHeaders ==
    {Absent, Bearer("free-token"), <<"free-token">>, Bearer("other-token")}

\* The requests tried on /subfiles/id/<id>.
Requests ==
    [authorization : AuthHeaders,
     id            : {SrvHashes[j] : j \in 1..Len(SrvHashes)} \cup {"QmUnknown"},
     file_name     : {"None", FileNames[1]},
     content_range : {Absent, RangeHeader(0, 1), <<"bytes=x">>}]

\* `let free = ...`: no token is configured, or the header equals the stored one.
Free_AnyHeader(stored, auth) == stored = Absent \/ auth # Absent
Free(stored, auth) ==
    \/ stored = Absent
    \/ (auth # Absent /\ stored # Absent /\ auth = stored)

\* The checks of file_service before the file is served: <<status>> of the
\* response that ends the request, or <<>> when all passed.
CheckRequest_LookupFirst(stored, subfiles, req) ==
    IF req.id \notin subfiles THEN <<NOT_FOUND>>
    ELSE IF ~Free(stored, req.authorization) THEN <<UNAUTHORIZED>>
    ELSE IF req.file_name = "None" THEN <<NOT_ACCEPTABLE>>
    ELSE <<>>
CheckRequest(stored, subfiles, req) ==
    IF ~Free(stored, req.authorization) THEN <<UNAUTHORIZED>>
    ELSE IF req.id \notin subfiles THEN <<NOT_FOUND>>
    ELSE IF req.file_name = "None" THEN <<NOT_ACCEPTABLE>>
    ELSE <<>>

\* The outcome of a request: a response with a status, or the handler
\* returning Err (hyper then sends no response); `opened` tells whether the
\* file was opened.
HttpResponse(req, status, opened) ==
    [req |-> req, kind |-> "response", status |-> status, opened |-> opened]
HandlerError(req, opened) ==
    [req |-> req, kind |-> "handler_error", status |-> 0, opened |-> opened]

\* range::parse_range_header (not among the sources): "bytes=<start>-<end>"
\* parses, anything else is an Err.
parse_range_header(r) ==
    IF Len(r) = 4 /\ r[1] = "bytes=" /\ r[3] = "-" THEN "Ok" ELSE "Err"

\* range::serve_file and range::serve_file_range (not among the sources): the
\* file, or the range of it, or an error status, or an Err.
serve_file(req) ==
    {HttpResponse(req, 200, TRUE), HttpResponse(req, 404, FALSE),
     HandlerError(req, TRUE)}
serve_file_range(req) ==
    {HttpResponse(req, 206, TRUE), HttpResponse(req, 416, TRUE),
     HttpResponse(req, 404, FALSE), HandlerError(req, TRUE)}


(***************************************************************************)
(* Downloader: configuration and pure helpers.                             *)
(***************************************************************************)
static_endpoints == Endpoints

\* The url of an endpoint, and the url a chunk request is sent to
\* (download_range_request: url + "/subfiles/id/" + &self.ipfs_hash).
BaseUrl(e) == <<e>>
QueryEndpoint(url) == url \o <<"/subfiles/id/", ipfs_hash>>

\* (operator.public_key, url) as returned by check_endpoint_availability.
IndexerEndpoint(e) == <<<<"public_key", e>>, BaseUrl(e)>>

\* Number of iterations of `for i in 0..(total_bytes / chunk_size + 1)`.
NumIters(cf) == cf.total_bytes \div cf.chunk_size + 1

\* start and end of DownloadRangeRequest number i.
RangeStart_NoScale(i, chunk_size) == i
RangeStart(i, chunk_size) == i * chunk_size
RangeEnd(start, chunk_size, total_bytes) == Min(start + chunk_size, total_bytes) - 1

\* `u64::min(start + chunk_size, total_bytes) - 1` subtracts from zero.
RangeEndUnderflows(cf, i) ==
    Min(RangeStart(i, cf.chunk_size) + cf.chunk_size, cf.total_bytes) = 0

\* download_range_request panics instead of returning: the u64 subtraction
\* `min(..) - 1` underflows (debug build) or chunk_hashes[i] is out of bounds
\* (every build; the wrapped end of a release build is never used).
RangeRequestPanics(cf, i) ==
    \/ Min(RangeStart(i, cf.chunk_size) + cf.chunk_size, cf.total_bytes) = 0
    \/ i >= Len(cf.chunk_hashes)

\* The DownloadRangeRequest of chunk i of file f sent to endpoint url, together
\* with the local variables of download_chunk_and_write_to_file.
NewTask(cf, i, url) ==
    [query_endpoint |-> QueryEndpoint(url),
     start          |-> RangeStart(i, cf.chunk_size),
     end            |-> RangeEnd(RangeStart(i, cf.chunk_size), cf.chunk_size, cf.total_bytes),
     chunk_hash     |-> cf.chunk_hashes[i + 1],
     max_retry      |-> chunk_max_retry,
     auth_token     |-> free_query_auth_token,
     state          |-> "request",
     attempts       |-> 0,
     data           |-> <<>>]

\* What an endpoint may answer to a ranged GET for bytes start..end of file f.
\* sent: the request got a response; success: 2xx status; content_range: the
\* response carries a Content-Range header.
Response(sent, success, content_range, body) ==
    [sent |-> sent, success |-> success, content_range |-> content_range, body |-> body]

\* The bodies an arbitrary server is tried with: the requested bytes, bodies
\* that differ from them in a byte or in length, and every chunk of the file.
Bodies(f, right) ==
    {right, right \o <<0>>, <<>>}
    \cup {[right EXCEPT ![k] = 0] : k \in 1..Len(right)}
    \cup {SubSeq(right, 1, Len(right) - 1) : k \in 1..Len(right)}
    \cup {Slice(SourceOf(chunk_files[f]), r[1], r[2]) :
            r \in ChunkRanges(chunk_files[f])}

Responses(e, f, start, end) ==
    LET right == Slice(SourceOf(chunk_files[f]), start, end) IN
    CASE profile[e] = "honest"    -> {Response(TRUE, TRUE, TRUE, right)}
      [] profile[e] = "always500" -> {Response(TRUE, FALSE, FALSE, <<>>)}
      [] profile[e] = "corrupt"   -> {Response(TRUE, TRUE, TRUE, right \o <<0>>)}
      [] OTHER ->
           {Response(FALSE, FALSE, FALSE, <<>>),
            Response(TRUE, FALSE, FALSE, <<>>),
            Response(TRUE, FALSE, TRUE, right),
            Response(TRUE, TRUE, FALSE, right)}
           \cup {Response(TRUE, TRUE, TRUE, b) : b \in Bodies(f, right)}

\* The ways a probe of check_endpoint_availability fails.
StatusFailures == {"status_send_err", "status_non_2xx", "status_unparseable",
                   "status_hash_missing"}
OperatorFailures == {"operator_send_err", "operator_non_2xx", "operator_unparseable"}

\* The hash of the ChunkFile document of a manifest entry (FileMetaInfo.hash).
ChunkFileHash(cf) == IF cf.file_name = FileNames[1] THEN "QmFileA" ELSE "QmFileB"

\* DownloaderArgs.free_query_auth_token holds the whole value of the header,
\* "Bearer " and the token, and request_chunk sends it as it is.
ConfiguredHeader(auth_token) == Bearer(auth_token)

\* The headers request_chunk puts on the GET of a chunk.
ChunkRequestHeaders(auth_token, file_hash, start, end) ==
    [file_hash     |-> file_hash,
     content_range |-> RangeHeader(start, end),
     authorization |-> ConfiguredHeader(auth_token)]

\* headers().get(name) of the server, with the value for an absent header.
HeaderOr(headers, name, absent) ==
    IF name \in DOMAIN headers THEN headers[name] ELSE absent

\* The request as file_service reads it: the id from the path, and the
\* headers Authorization, file_name and Content-Range.
ReceivedRequest(id, headers) ==
    [authorization |-> HeaderOr(headers, "authorization", Absent),
     id            |-> id,
     file_name     |-> HeaderOr(headers, "file_name", "None"),
     content_range |-> HeaderOr(headers, "content_range", Absent)]

\* The answer of a reference server that hosts the manifest with verified
\* local files and is configured with config_token: a failed check is a 4xx
\* response, a range that does not parse is no response, and otherwise the
\* range of the file is served with a Content-Range header.
ReferenceAnswer(config_token, req, right) ==
    LET verdict == CheckRequest(StoredToken(config_token), {ipfs_hash}, req) IN
    IF verdict # <<>> THEN Response(TRUE, FALSE, FALSE, <<>>)
    ELSE IF parse_range_header(req.content_range) = "Err"
    THEN Response(FALSE, FALSE, FALSE, <<>>)
    ELSE Response(TRUE, TRUE, TRUE, right)

\* The answers of a reference server, with or without a token configured, to
\* the chunk request of the downloader for bytes start..end of file f.
ReferenceResponses(f, start, end) ==
    LET req == ReceivedRequest(ipfs_hash,
                   ChunkRequestHeaders(free_query_auth_token,
                                       ChunkFileHash(chunk_files[f]), start, end))
    IN {ReferenceAnswer(config_token, req,
                        Slice(SourceOf(chunk_files[f]), start, end)) :
            config_token \in {"None", "free-token"}}

\* What an endpoint of each kind answers to the chunk request.
ResponsesOf(e, f, start, end) ==
    CASE profile[e] = "reference"   -> ReferenceResponses(f, start, end)
      [] profile[e] = "unreachable" -> {Response(FALSE, FALSE, FALSE, <<>>)}
      [] OTHER -> Responses(e, f, start, end)

\* What an endpoint of each kind answers to the probes: a reference server
\* hosting the manifest passes both, an unreachable endpoint fails the first.
StatusOutcomes(e) ==
    CASE profile[e] = "reference"   -> {"ok"}
      [] profile[e] = "unreachable" -> {"status_send_err"}
      [] OTHER -> StatusFailures \cup {"ok"}
OperatorOutcomes(e) ==
    IF profile[e] = "reference" THEN {"ok"} ELSE OperatorFailures \cup {"ok"}

\* request_chunk returns Ok(body): 2xx and a Content-Range header.
RequestChunkOk(resp) == resp.sent /\ resp.success /\ resp.content_range

\* The Ok(data) arm of download_chunk_and_write_to_file takes the write path.
ChunkAccepted_NoVerify(resp, chunk_hash) == RequestChunkOk(resp)
ChunkAccepted(resp, chunk_hash) ==
    RequestChunkOk(resp) /\ verify_chunk(resp.body, chunk_hash)

\* GET requests a task has sent while it is inside the retry loop: one per
\* counted attempt, and the one whose body was accepted.
Gets(task) == task.attempts + (IF task.state \in {"lock", "write"} THEN 1 ELSE 0)

\* `attempts += 1; if attempts >= request.max_retry { return Err }`
RetriesExhausted_Strict(attempts, max_retry) == attempts > max_retry
RetriesExhausted(attempts, max_retry) == attempts >= max_retry

\* seek(SeekFrom::Start(pos)) then write_all(data) on a file holding `bytes`.
WriteAt_Append(bytes, pos, data) == bytes \o data
WriteAt(bytes, pos, data) ==
    IF data = <<>> THEN bytes
    ELSE [k \in 1..Max(Len(bytes), pos + Len(data)) |->
            IF k > pos /\ k <= pos + Len(data) THEN data[k - pos]
            ELSE IF k <= Len(bytes) THEN bytes[k] ELSE 0]

\* and(f, v): the map m with m[f] = v.
Put(m, k, v) == [x \in DOMAIN m \cup {k} |-> IF x = k THEN v ELSE m[x]]

\* Arc::new(Mutex::new(file)): the holder of a Mutex<File> nobody holds (a
\* holder is the key of a chunk task).
Unlocked == <<>>

NoFile == [chunk_file |-> ChunkFileOf("", <<>>, 1), local |-> <<>>]

TerminalTask(t) == tasks[t].state \in {"ok", "err", "panicked"}



(***************************************************************************)
(* Downloader: initial state.                                              *)
(***************************************************************************)
\* The manifests tried: the files hold at most MaxBytes bytes together and are
\* all chunked by one publisher with one chunk_size.
RECURSIVE Sum(_)
Sum(lens) == IF lens = <<>> THEN 0 ELSE lens[1] + Sum(Tail(lens))

ChunkSizes == 2..MaxChunkSize

ManifestNames ==
    {SubSeq(FileNames, 1, n) : n \in 0..Len(FileNames)}
    \cup {<<FileNames[1], FileNames[1]>>}

Manifests ==
    {[f \in 1..Len(names) |->
         ChunkFileOf(names[f], Source(names[f], lens[names[f]]), cs)] :
        <<names, lens, cs>> \in {<<names, lens, cs>> \in
            ManifestNames \X [{FileNames[j] : j \in 1..Len(FileNames)} -> 0..MaxBytes]
                          \X ChunkSizes :
            /\ Sum([f \in 1..Len(names) |-> lens[names[f]]]) <= MaxBytes
            /\ \A j \in 1..Len(FileNames) :
                 (\A f \in 1..Len(names) : names[f] # FileNames[j])
                    => lens[FileNames[j]] = 0}}

\* Behaviours of the endpoints: any response to any request; one endpoint
\* answering every chunk request with a 500, or with a body that is not the
\* chunk, beside an honest one.
P_FailingAndHonest == [e \in Endpoints |-> IF e = "e1" THEN "always500" ELSE "honest"]
P_CorruptAndHonest == [e \in Endpoints |-> IF e = "e1" THEN "corrupt" ELSE "honest"]

\* A running reference server and an endpoint nothing listens on.
P_ReferenceAndUnreachable ==
    [e \in Endpoints |-> IF e = "e1" THEN "reference" ELSE "unreachable"]

Profiles ==
    {[e \in Endpoints |-> "arbitrary"], P_FailingAndHonest, P_CorruptAndHonest,
     P_ReferenceAndUnreachable}

DlInit ==
    /\ chunk_files \in Manifests
    /\ profile \in Profiles
    /\ free_query_auth_token \in {"None", "free-token"}
    /\ chunk_max_retry \in 0..MaxRetryBound
    /\ indexer_blocklist = {}
    /\ chunks_to_download = <<>>
    /\ pc = "start"
    /\ cur = 0
    /\ next_i = 0
    /\ handle_i = 0
    /\ failed = {}
    /\ file_results = <<>>
    /\ result = "none"
    /\ filtered_endpoints = {}
    /\ probe = [e \in Endpoints |-> "idle"]
    /\ query_endpoints = {}
    /\ tasks = <<>>
    /\ output = <<>>
    /\ file_lock = <<>>
    /\ cursor = <<>>
    /\ write_log = {}

\* The downloader is not running (specification of the server).
DlIdle ==
    /\ chunk_files = <<>>
    /\ profile = [e \in Endpoints |-> "arbitrary"]
    /\ free_query_auth_token = "None"
    /\ chunk_max_retry = 0
    /\ indexer_blocklist = {}
    /\ chunks_to_download = <<>>
    /\ pc = "idle"
    /\ cur = 0
    /\ next_i = 0
    /\ handle_i = 0
    /\ failed = {}
    /\ file_results = <<>>
    /\ result = "none"
    /\ filtered_endpoints = {}
    /\ probe = [e \in Endpoints |-> "idle"]
    /\ query_endpoints = {}
    /\ tasks = <<>>
    /\ output = <<>>
    /\ file_lock = <<>>
    /\ cursor = <<>>
    /\ write_log = {}

dl_config == <<chunk_files, profile, free_query_auth_token, chunk_max_retry>>

(***************************************************************************)
(* download_subfile and download_chunk_file (the caller's future).         *)
(***************************************************************************)
\* download_chunk_file returns res for file `cur`; download_subfile pushes the
\* error, goes on with the next file and returns after the last one.
\* The error of a failed store cat, returned by `?`.
CatError_Ignored == "ok"
CatError == "err_cat"

FinishFile_AbortOnError(res) ==
    /\ file_results' = Append(file_results, res)
    /\ IF cur < Len(chunk_files) /\ res = "ok"
       THEN /\ cur' = cur + 1
            /\ pc' = "fetch_chunk_file"
            /\ result' = result
       ELSE /\ cur' = cur
            /\ pc' = "done"
            /\ result' = IF res = "ok" THEN "ok" ELSE "err_incomplete"
FinishFile(res) ==
    /\ file_results' = Append(file_results, res)
    /\ IF cur < Len(chunk_files)
       THEN /\ cur' = cur + 1
            /\ pc' = "fetch_chunk_file"
            /\ result' = result
       ELSE /\ cur' = cur
            /\ pc' = "done"
            /\ result' = IF \A k \in 1..Len(file_results') : file_results'[k] = "ok"
                         THEN "ok" ELSE "err_incomplete"

\* download_subfile: fetch_subfile_from_ipfs(..).await?
FetchSubfile ==
    /\ pc = "start"
    /\ \E cat_ok \in BOOLEAN :
         IF cat_ok /\ Len(chunk_files) > 0
         THEN /\ pc' = "fetch_chunk_file"
              /\ cur' = 1
              /\ result' = result
         ELSE /\ pc' = "done"
              /\ cur' = cur
              /\ result' = IF cat_ok THEN "ok" ELSE CatError
    /\ UNCHANGED <<dl_config, indexer_blocklist, chunks_to_download, next_i,
                   handle_i, failed, file_results, filtered_endpoints, probe,
                   query_endpoints, tasks, output, file_lock, cursor, write_log>>
    /\ UNCHANGED <<srv_vars, pub_vars>>

\* download_chunk_file: fetch_chunk_file_from_ipfs(..).await?
FetchChunkFile ==
    /\ pc = "fetch_chunk_file"
    /\ \E cat_ok \in BOOLEAN :
         IF cat_ok
         THEN /\ pc' = "check_availability"
              /\ UNCHANGED <<cur, result, file_results>>
         ELSE FinishFile(CatError)
    /\ query_endpoints' = {}
    /\ UNCHANGED <<dl_config, indexer_blocklist, chunks_to_download, next_i,
                   handle_i, failed, filtered_endpoints, probe,
                   tasks, output, file_lock, cursor, write_log>>
    /\ UNCHANGED <<srv_vars, pub_vars>>

\* The static endpoints that are not in the cloned blocklist.
FilteredEndpoints_All(blocklist) == static_endpoints
FilteredEndpoints(blocklist) ==
    {e \in static_endpoints : BaseUrl(e) \notin blocklist}

\* check_availability up to the start of the probes: the blocklist is cloned
\* and the static endpoints filtered by it. With no endpoint left the stream
\* is buffer_unordered(0), which the futures crate may never complete: both
\* outcomes (never returning, returning no endpoint) are kept.
CheckAvailabilityStart ==
    /\ pc = "check_availability"
    /\ LET filtered == FilteredEndpoints(indexer_blocklist) IN
         /\ filtered_endpoints' = filtered
         /\ probe' = [e \in Endpoints |-> IF e \in filtered THEN "status" ELSE "skipped"]
         /\ IF filtered = {}
            THEN pc' \in {"hung", "probing"}
            ELSE pc' = "probing"
    /\ UNCHANGED <<dl_config, indexer_blocklist, chunks_to_download, cur, next_i,
                   handle_i, failed, file_results, result, query_endpoints,
                   tasks, output, file_lock, cursor, write_log>>
    /\ UNCHANGED <<srv_vars, pub_vars>>

\* add_to_indexer_blocklist: `blocklist.insert(endpoint)` under the lock.
add_to_indexer_blocklist_Replace(blocklist, endpoint) == {endpoint}
add_to_indexer_blocklist(blocklist, endpoint) == blocklist \cup {endpoint}

\* Where check_endpoint_availability goes after the /status check: on to
\* GET /operator, or `return Err(..)` on each of its failures.
ProbeAfterStatus_NoReturn(outcome) == "operator"
ProbeAfterStatus(outcome) == IF outcome = "ok" THEN "operator" ELSE "failed"

\* check_endpoint_availability, GET <url>/status: every failure adds the url
\* to the blocklist and ends the probe of this endpoint.
ProbeStatus(e) ==
    /\ pc = "probing"
    /\ probe[e] = "status"
    /\ \E outcome \in StatusOutcomes(e) :
         /\ probe' = [probe EXCEPT ![e] = ProbeAfterStatus(outcome)]
         /\ indexer_blocklist' =
              IF outcome = "ok" THEN indexer_blocklist
              ELSE add_to_indexer_blocklist(indexer_blocklist, BaseUrl(e))
    /\ UNCHANGED <<dl_config, chunks_to_download, pc, cur, next_i, handle_i,
                   failed, file_results, result, filtered_endpoints,
                   query_endpoints, tasks, output, file_lock, cursor, write_log>>
    /\ UNCHANGED <<srv_vars, pub_vars>>

\* An /operator failure is handled by add_to_indexer_blocklist(url).
OperatorFailureBlocklist_Forgotten(e) == indexer_blocklist
OperatorFailureBlocklist(e) ==
    add_to_indexer_blocklist(indexer_blocklist, BaseUrl(e))

\* check_endpoint_availability, GET <url>/operator.
ProbeOperator(e) ==
    /\ pc = "probing"
    /\ probe[e] = "operator"
    /\ \E outcome \in OperatorOutcomes(e) :
         IF outcome = "ok"
         THEN /\ probe' = [probe EXCEPT ![e] = "ok"]
              /\ UNCHANGED indexer_blocklist
         ELSE /\ probe' = [probe EXCEPT ![e] = "failed"]
              /\ indexer_blocklist' = OperatorFailureBlocklist(e)
    /\ UNCHANGED <<dl_config, chunks_to_download, pc, cur, next_i, handle_i,
                   failed, file_results, result, filtered_endpoints,
                   query_endpoints, tasks, output, file_lock, cursor, write_log>>
    /\ UNCHANGED <<srv_vars, pub_vars>>

\* What download_chunk_file does with the endpoints check_availability
\* returned: whatever they are, it goes on to File::create.
AfterCheckAvailability_SkipCreate(endpoints) ==
    IF endpoints = {} THEN "spawn" ELSE "create_file"
AfterCheckAvailability(endpoints) == "create_file"

\* check_availability returns the successful results.
CheckAvailabilityReturn ==
    /\ pc = "probing"
    /\ \A e \in Endpoints : probe[e] \notin {"status", "operator"}
    /\ query_endpoints' = {IndexerEndpoint(e) : e \in {x \in Endpoints : probe[x] = "ok"}}
    /\ pc' = AfterCheckAvailability(query_endpoints')
    /\ UNCHANGED <<dl_config, indexer_blocklist, chunks_to_download, cur, next_i,
                   handle_i, failed, file_results, result, filtered_endpoints, probe,
                   tasks, output, file_lock, cursor, write_log>>
    /\ UNCHANGED <<srv_vars, pub_vars>>

\* File::create(output_dir/name): the output file is created or truncated.
CreateFile ==
    /\ pc = "create_file"
    /\ output' = Put(output, chunk_files[cur].file_name, <<>>)
    /\ file_lock' = Put(file_lock, cur, Unlocked)
    /\ cursor' = Put(cursor, cur, 0)
    /\ write_log' = {}
    /\ next_i' = 0
    /\ pc' = "spawn"
    /\ UNCHANGED <<dl_config, indexer_blocklist, chunks_to_download, cur,
                   handle_i, failed, file_results, result, filtered_endpoints,
                   probe, query_endpoints, tasks>>
    /\ UNCHANGED <<srv_vars, pub_vars>>

\* `Err(e) => return Err(anyhow!("Cannot make range request: {e}"))`
RangeRequestError_Ignored == "ok"
RangeRequestError == "err_range_request"

\* One iteration of the spawning loop: download_range_request picks an
\* endpoint at random (Err when there is none), computes the range, reads
\* chunk_hashes[i], and the task is spawned.
SpawnChunk ==
    /\ pc = "spawn"
    /\ IF query_endpoints = {}
       THEN /\ FinishFile(RangeRequestError)
            /\ UNCHANGED <<tasks, next_i, handle_i, failed>>
       ELSE \E ep \in query_endpoints :
              IF RangeRequestPanics(chunk_files[cur], next_i)
              THEN /\ pc' = "panicked"
                   /\ UNCHANGED <<tasks, next_i, handle_i, failed, cur,
                                  file_results, result>>
              ELSE /\ tasks' = Put(tasks, <<cur, next_i>>,
                                   NewTask(chunk_files[cur], next_i, ep[2]))
                   /\ next_i' = next_i + 1
                   /\ handle_i' = 0
                   /\ failed' = {}
                   /\ pc' = IF next_i + 1 < NumIters(chunk_files[cur])
                            THEN "spawn" ELSE "await"
                   /\ UNCHANGED <<cur, file_results, result>>
    /\ UNCHANGED <<dl_config, indexer_blocklist, chunks_to_download,
                   filtered_endpoints, probe, query_endpoints, output,
                   file_lock, cursor, write_log>>
    /\ UNCHANGED <<srv_vars, pub_vars>>

\* `match handle.await?`: a panicked task is a JoinError and returns at once;
\* an Ok result locks the file for its metadata (`metadata()?` returns at once
\* when the read fails); an Err is pushed to `failed`.
AwaitHandle ==
    /\ pc = "await"
    /\ handle_i < NumIters(chunk_files[cur])
    /\ LET t == <<cur, handle_i>> IN
         /\ TerminalTask(t)
         /\ CASE tasks[t].state = "panicked" ->
                   /\ FinishFile("err_join")
                   /\ UNCHANGED <<handle_i, failed>>
              [] tasks[t].state = "ok" ->
                   /\ file_lock[cur] = Unlocked
                   /\ \E metadata_ok \in BOOLEAN :
                        IF metadata_ok
                        THEN /\ handle_i' = handle_i + 1
                             /\ UNCHANGED <<failed, pc, cur, file_results, result>>
                        ELSE /\ FinishFile("err_metadata")
                             /\ UNCHANGED <<handle_i, failed>>
              [] tasks[t].state = "err" ->
                   /\ handle_i' = handle_i + 1
                   /\ failed' = failed \cup {handle_i}
                   /\ UNCHANGED <<pc, cur, file_results, result>>
    /\ UNCHANGED <<dl_config, indexer_blocklist, chunks_to_download, next_i,
                   filtered_endpoints, probe, query_endpoints, tasks, output,
                   file_lock, cursor, write_log>>
    /\ UNCHANGED <<srv_vars, pub_vars>>

\* `if !failed.is_empty() { return Err(..) }  Ok(meta)`
ChunkFileResult_AlwaysOk(failed_chunks) == "ok"
ChunkFileResult(failed_chunks) ==
    IF failed_chunks = {} THEN "ok" ELSE "err_failed_chunks"

\* download_chunk_file returns: Err when `failed` is not empty, else Ok(meta).
\* Every handle was awaited, so every task of the file has ended and is gone.
DownloadChunkFileReturn ==
    /\ pc = "await"
    /\ handle_i = NumIters(chunk_files[cur])
    /\ FinishFile(ChunkFileResult(failed))
    /\ tasks' = [t \in {x \in DOMAIN tasks : x[1] # cur} |-> tasks[t]]
    /\ UNCHANGED <<dl_config, indexer_blocklist, chunks_to_download, next_i,
                   handle_i, failed, filtered_endpoints, probe, query_endpoints,
                   output, file_lock, cursor, write_log>>
    /\ UNCHANGED <<srv_vars, pub_vars>>


(***************************************************************************)
(* The chunk task spawned by download_chunk_file:                          *)
(* download_chunk_and_write_to_file and the match on its result.           *)
(***************************************************************************)
\* `let url = request.query_endpoint.clone()` is what a failed task inserts.
BlocklistEntry(task) == task.query_endpoint

\* The blocklist after a failed attempt: only the Err returned when the
\* retries are exhausted reaches block_list.lock().insert(url).
BlocklistAfterFailure_EveryAttempt(task, exhausted) ==
    indexer_blocklist \cup {BlocklistEntry(task)}
BlocklistAfterFailure(task, exhausted) ==
    IF exhausted THEN indexer_blocklist \cup {BlocklistEntry(task)}
    ELSE indexer_blocklist

\* `attempts += 1` and, retries remaining, sleep and loop: the next pass sends
\* the same `request` (query_endpoint, range and chunk_hash are not reassigned).
NextAttempt_Rechoose(task) ==
    [task EXCEPT !.attempts = @ + 1,
                 !.query_endpoint =
                     QueryEndpoint(BaseUrl(CHOOSE e \in Endpoints :
                                             e # task.query_endpoint[1]))]
NextAttempt(task) == [task EXCEPT !.attempts = @ + 1]

\* `auth_token.expect("No payment nor auth token")` panics: the argument of
\* .header(AUTHORIZATION, ..) is evaluated before .send().
ExpectPanics_Never(auth_token) == FALSE
ExpectPanics(auth_token) == auth_token = "None"

\* One pass of the retry loop up to the next suspension point: request_chunk
\* (which panics without an auth token, before anything is sent), then either
\* the verified body is kept for writing, or the attempt is counted and the
\* task sleeps or gives up. Giving up returns Err and the spawned closure
\* inserts the url in the blocklist.
TaskRequest(t) ==
    /\ t \in DOMAIN tasks
    /\ tasks[t].state = "request"
    /\ IF ExpectPanics(tasks[t].auth_token)
       THEN /\ tasks' = [tasks EXCEPT ![t].state = "panicked"]
            /\ UNCHANGED indexer_blocklist
       ELSE \E resp \in ResponsesOf(tasks[t].query_endpoint[1], t[1],
                                    tasks[t].start, tasks[t].end) :
              IF ChunkAccepted(resp, tasks[t].chunk_hash)
              THEN /\ tasks' = [tasks EXCEPT ![t].state = "lock",
                                             ![t].data = resp.body]
                   /\ UNCHANGED indexer_blocklist
              ELSE IF RetriesExhausted(tasks[t].attempts + 1, tasks[t].max_retry)
              THEN /\ tasks' = [tasks EXCEPT ![t].state = "err",
                                             ![t].attempts = @ + 1]
                   /\ indexer_blocklist' = BlocklistAfterFailure(tasks[t], TRUE)
              ELSE /\ tasks' = [tasks EXCEPT ![t] = NextAttempt(@)]
                   /\ indexer_blocklist' = BlocklistAfterFailure(tasks[t], FALSE)
    /\ UNCHANGED <<dl_config, chunks_to_download, pc, cur, next_i, handle_i,
                   failed, file_results, result, filtered_endpoints, probe,
                   query_endpoints, output, file_lock, cursor, write_log>>
    /\ UNCHANGED <<srv_vars, pub_vars>>

\* `request.file.lock().await` returns the guard when no task holds it.
LockAcquired_Unguarded(holder) == TRUE
LockAcquired(holder) == holder = Unlocked

\* request.file.lock().await, then seek(SeekFrom::Start(request.start)).
TaskLockSeek(t) ==
    /\ t \in DOMAIN tasks
    /\ tasks[t].state = "lock"
    /\ LockAcquired(file_lock[t[1]])
    /\ file_lock' = [file_lock EXCEPT ![t[1]] = t]
    /\ cursor' = [cursor EXCEPT ![t[1]] = tasks[t].start]
    /\ tasks' = [tasks EXCEPT ![t].state = "write"]
    /\ UNCHANGED <<dl_config, indexer_blocklist, chunks_to_download, pc, cur,
                   next_i, handle_i, failed, file_results, result,
                   filtered_endpoints, probe, query_endpoints, output, write_log>>
    /\ UNCHANGED <<srv_vars, pub_vars>>

\* `drop(file_lock)`: the guard of the output file after the write.
LockAfterWrite_Kept(t) == t
LockAfterWrite(t) == Unlocked

\* write_all(&data) at the seek position, drop(file_lock), return Ok(file):
\* the locals of download_chunk_and_write_to_file are gone.
TaskWrite(t) ==
    /\ t \in DOMAIN tasks
    /\ tasks[t].state = "write"
    /\ file_lock[t[1]] = t
    /\ output' = [output EXCEPT ![chunk_files[t[1]].file_name] =
                               WriteAt(@, cursor[t[1]], tasks[t].data)]
    /\ cursor' = [cursor EXCEPT ![t[1]] = @ + Len(tasks[t].data)]
    /\ write_log' = write_log \cup
          {[file |-> t[1], chunk |-> t[2], offset |-> cursor[t[1]],
            body |-> tasks[t].data]}
    /\ file_lock' = [file_lock EXCEPT ![t[1]] = LockAfterWrite(t)]
    /\ tasks' = [tasks EXCEPT ![t].state = "mark", ![t].attempts = 0,
                               ![t].data = <<>>]
    /\ UNCHANGED <<dl_config, indexer_blocklist, chunks_to_download, pc, cur,
                   next_i, handle_i, failed, file_results, result,
                   filtered_endpoints, probe, query_endpoints>>
    /\ UNCHANGED <<srv_vars, pub_vars>>

\* The pending chunk indices of a ChunkFile hash; none when it has no entry.
Pending(hash) ==
    IF hash \in DOMAIN chunks_to_download THEN chunks_to_download[hash] ELSE {}

\* `.entry(chunk_file_hash).or_insert_with(HashSet::new).remove(&i)`
MarkDownloaded_All(pending, i) == {}
MarkDownloaded(pending, i) == pending \ {i}

\* chunks_to_download.lock().await.entry(hash).or_insert_with(..).remove(&i)
TaskMarkDownloaded(t) ==
    /\ t \in DOMAIN tasks
    /\ tasks[t].state = "mark"
    /\ LET hash == ChunkFileHash(chunk_files[t[1]]) IN
         chunks_to_download' =
            Put(chunks_to_download, hash, MarkDownloaded(Pending(hash), t[2]))
    /\ tasks' = [tasks EXCEPT ![t].state = "ok"]
    /\ UNCHANGED <<dl_config, indexer_blocklist, pc, cur, next_i, handle_i,
                   failed, file_results, result, filtered_endpoints, probe,
                   query_endpoints, output, file_lock, cursor, write_log>>
    /\ UNCHANGED <<srv_vars, pub_vars>>

TaskIds == (1..Len(FileNames)) \X (0..MaxBytes)

Next ==
    \/ FetchSubfile
    \/ FetchChunkFile
    \/ CheckAvailabilityStart
    \/ \E e \in Endpoints : ProbeStatus(e)
    \/ \E e \in Endpoints : ProbeOperator(e)
    \/ CheckAvailabilityReturn
    \/ CreateFile
    \/ SpawnChunk
    \/ AwaitHandle
    \/ DownloadChunkFileReturn
    \/ \E t \in TaskIds : TaskRequest(t)
    \/ \E t \in TaskIds : TaskLockSeek(t)
    \/ \E t \in TaskIds : TaskWrite(t)
    \/ \E t \in TaskIds : TaskMarkDownloaded(t)

\* No request on /subfiles/id/ is being served.
NoRequest ==
    [authorization |-> <<>>, id |-> "", file_name |-> "None",
     content_range |-> <<>>]

\* No request on /subfiles/id/ was made yet.
NoExchange ==
    [req |-> NoRequest, kind |-> "none", status |-> 0, opened |-> FALSE]

\* No request on another route was answered yet.
NoReply == <<"", 0, "">>

\* No document is about to be added.
NoDocument == [kind |-> "none", chunk_file |-> ChunkFileOf("", <<>>, 1), files |-> <<>>]

\* The publisher is not running (specifications of downloader and server).
PubIdle ==
    /\ pub_file_names = <<>>
    /\ pub_chunk_size = 1
    /\ pub_pc = "idle"
    /\ pub_i = 0
    /\ pub_yaml = NoDocument
    /\ root_hashes = <<>>
    /\ pub_store = <<>>
    /\ pub_result = "none"

\* The server is not running (specification of the downloader).
SrvIdle ==
    /\ srv_subfiles = <<>>
    /\ srv_pc = "idle"
    /\ srv_entry = 0
    /\ srv_nfiles = 0
    /\ srv_file = 0
    /\ srv_cur = NoFile
    /\ srv_i = 0
    /\ srv_reads = {}
    /\ srv_bad = {}
    /\ server_state = {}
    /\ srv_responses = {}
    /\ srv_token = "None"
    /\ srv_exchange = NoExchange
    /\ srv_operator_public_key = "None"
    /\ srv_release = "None"
    /\ srv_guard = "free"
    /\ srv_serving = NoRequest
    /\ srv_reply = NoReply

Init == DlInit /\ SrvIdle /\ PubIdle

Spec == Init /\ [][Next]_vars

(***************************************************************************)
(* The caller drops the future of download_subfile.                        *)
(***************************************************************************)
\* The future can be dropped wherever it is suspended: at the cat of the
\* manifest or of a ChunkFile, in check_availability, or at handle.await.
\* The tasks were started by tokio::spawn and their JoinHandles are only
\* dropped with the future, which detaches them: nothing else changes.
DropFuture ==
    /\ pc \in {"start", "fetch_chunk_file", "check_availability", "probing",
               "await"}
    /\ pc' = "dropped"
    /\ UNCHANGED <<dl_config, indexer_blocklist, chunks_to_download, cur, next_i,
                   handle_i, failed, file_results, result, filtered_endpoints,
                   probe, query_endpoints, tasks, output, file_lock, cursor,
                   write_log>>
    /\ UNCHANGED <<srv_vars, pub_vars>>

\* A chunk task that is suspended: in sleep() between two attempts, or waiting
\* for the lock of the output file or of the pending map.
SuspendedTask(task) ==
    \/ task.state = "request" /\ task.attempts >= 1
    \/ task.state \in {"lock", "mark"}

DropNext == Next \/ DropFuture


\* Downloads of manifests of at most one file.
DropInit == Init /\ Len(chunk_files) <= 1

DropSpec == DropInit /\ [][DropNext]_vars

(***************************************************************************)
(* Progress: the runtime polls the caller's future and every spawned task  *)
(* whenever it can make a step; the store and the endpoints answer every   *)
(* request (each cat, probe and ranged GET is a step that ends in success  *)
(* or failure).                                                            *)
(***************************************************************************)
\* The steps of the future of download_subfile.
Caller ==
    \/ FetchSubfile
    \/ FetchChunkFile
    \/ CheckAvailabilityStart
    \/ \E e \in Endpoints : ProbeStatus(e)
    \/ \E e \in Endpoints : ProbeOperator(e)
    \/ CheckAvailabilityReturn
    \/ CreateFile
    \/ SpawnChunk
    \/ AwaitHandle
    \/ DownloadChunkFileReturn

\* The steps of the task spawned for chunk t.
TaskStep(t) ==
    \/ TaskRequest(t)
    \/ TaskLockSeek(t)
    \/ TaskWrite(t)
    \/ TaskMarkDownloaded(t)

Fairness ==
    /\ WF_vars(Caller)
    /\ \A t \in TaskIds : WF_vars(TaskStep(t))

\* Downloads of manifests of at most one file, under these conditions.
LiveSpec == DropInit /\ [][Next]_vars /\ Fairness

(***************************************************************************)
(* The caller prepares the pending map with chunks_to_download() before    *)
(* download_subfile.                                                       *)
(***************************************************************************)
\* chunks_to_download(): the manifest is fetched and, for each of its files,
\* the entry of the ChunkFile hash is made, the ChunkFile fetched and the
\* indices 0..(total_bytes / chunk_size) inserted. A failed fetch returns
\* at once: `fetched` files were done, and the entry of the next one, made
\* before its fetch, is left as it was.
\* `for i in 0..(chunk_file.total_bytes / chunk_size + 1) { chunks_set.insert(i) }`
PendingIndices_OneMore(cf) == 0..(cf.total_bytes \div cf.chunk_size + 1)
PendingIndices(cf) == 0..(cf.total_bytes \div cf.chunk_size)

ChunksToDownload ==
    /\ pc = "start"
    /\ chunks_to_download = <<>>
    /\ \E fetched \in 0..Len(chunk_files) :
         LET entries == IF fetched < Len(chunk_files) THEN fetched + 1 ELSE fetched
         IN
         /\ entries >= 1
         /\ chunks_to_download' =
              [hash \in {ChunkFileHash(chunk_files[f]) : f \in 1..entries} |->
                  UNION {PendingIndices(chunk_files[f]) :
                           f \in {g \in 1..fetched :
                                    ChunkFileHash(chunk_files[g]) = hash}}]
    /\ UNCHANGED <<dl_config, indexer_blocklist, pc, cur, next_i, handle_i,
                   failed, file_results, result, filtered_endpoints, probe,
                   query_endpoints, tasks, output, file_lock, cursor, write_log>>
    /\ UNCHANGED <<srv_vars, pub_vars>>

PendingNext == Next \/ ChunksToDownload

PendingSpec == DropInit /\ [][PendingNext]_vars

(***************************************************************************)
(* Subfile server: init_server and initialize_subfile_server_context.      *)
(* The chunk file and the local file of a verification are inputs drawn    *)
(* when the verification of that file begins.                              *)
(***************************************************************************)
\* Iterations of `for i in 0..(chunk_file.total_bytes / chunk_file.chunk_size + 1)`.
VerifyIters_NoLast(cf) == cf.total_bytes \div cf.chunk_size
VerifyIters(cf) == cf.total_bytes \div cf.chunk_size + 1

\* The loop body panics before read_chunk: `min(..) - 1` underflows (debug
\* build) or chunk_hashes[i] is out of bounds (every build).
VerifyPanicsBeforeRead(cf, i) ==
    \/ Min(i * cf.chunk_size + cf.chunk_size, cf.total_bytes) = 0
    \/ i >= Len(cf.chunk_hashes)

\* read_chunk(&file_path, (start, end)) (crate::file_reader, not among the
\* sources): the bytes start..end of the local file.
read_chunk(local, start, end) == Slice(local, start, end)

\* Local files tried for a published file: the file itself, a byte changed,
\* a byte appended, a byte missing.
LocalFiles(src) ==
    {src, src \o <<1>>}
    \cup {[src EXCEPT ![k] = 0] : k \in 1..Len(src)}
    \cup {SubSeq(src, 1, Len(src) - 1) : k \in 1..Len(src)}

\* Every chunk of the local file has the digest the ChunkFile stores for it.
Matches(cf, local) ==
    \A k \in 1..Len(cf.chunk_hashes) :
        verify_chunk(Slice(local, (k - 1) * cf.chunk_size,
                           Min(k * cf.chunk_size, cf.total_bytes) - 1),
                     cf.chunk_hashes[k])


SrvInit ==
    /\ srv_subfiles \in {SubSeq(SrvHashes, 1, n) : n \in 0..Len(SrvHashes)}
    /\ srv_pc = "start"
    /\ srv_entry = 0
    /\ srv_nfiles = 0
    /\ srv_file = 0
    /\ srv_cur = NoFile
    /\ srv_i = 0
    /\ srv_reads = {}
    /\ srv_bad = {}
    /\ server_state = {}
    /\ srv_responses = {}
    /\ srv_token \in {"None", "free-token"}
    /\ srv_exchange = NoExchange
    /\ srv_operator_public_key = "None"
    /\ srv_release = "None"
    /\ srv_guard = "free"
    /\ srv_serving = NoRequest
    /\ srv_reply = NoReply

\* Leaving the loop over the subfile entries: Ok(Arc::new(Mutex::new(server_state))).
NextEntry ==
    IF srv_entry < Len(srv_subfiles)
    THEN /\ srv_entry' = srv_entry + 1
         /\ srv_pc' = "read_subfile"
    ELSE /\ srv_entry' = srv_entry
         /\ srv_pc' = "built"

\* initialize_subfile_server_context up to the loop over the entries: the
\* entries are validated and the ServerState is made with the release and
\* the operator's public key; an Err of validate_subfile_entries or of
\* package_version is returned at once.
InitializeContext ==
    /\ srv_pc = "start"
    /\ \E context_ok \in BOOLEAN :
         IF context_ok
         THEN /\ srv_operator_public_key' = "public_key"
              /\ srv_release' = "version"
              /\ NextEntry
         ELSE /\ srv_pc' = "failed"
              /\ UNCHANGED <<srv_entry, srv_identity>>
    /\ UNCHANGED <<srv_subfiles, srv_nfiles, srv_file, srv_cur, srv_i, srv_reads,
                   srv_bad, server_state, srv_responses>>
    /\ UNCHANGED <<srv_token, srv_http>>
    /\ UNCHANGED <<dl_vars, pub_vars>>

\* read_subfile(client, &ipfs_hash, local_path).await?: the manifest and its
\* chunk files are fetched; a failed cat returns the error, and init_server
\* panics on it.
ReadSubfile ==
    /\ srv_pc = "read_subfile"
    /\ \E cat_ok \in BOOLEAN, n \in 0..Len(FileNames) :
         IF ~cat_ok
         THEN /\ srv_pc' = "failed"
              /\ UNCHANGED <<srv_nfiles, srv_file>>
         ELSE /\ srv_nfiles' = n
              /\ srv_file' = 1
              /\ srv_pc' = IF n = 0 THEN "insert" ELSE "verify_file"
    /\ srv_cur' = NoFile
    /\ UNCHANGED <<srv_subfiles, srv_entry, srv_i, srv_reads, srv_bad,
                   server_state, srv_responses>>
    /\ UNCHANGED <<srv_token, srv_identity, srv_http>>
    /\ UNCHANGED <<dl_vars, pub_vars>>

\* `for chunk_file in &subfile.chunk_files`: the next chunk file and the
\* local file <local_path>/<file_name> it is verified against.
BeginVerifyFile ==
    /\ srv_pc = "verify_file"
    /\ \E len \in 0..MaxBytes, cs \in 1..MaxChunkSize :
         \E local \in LocalFiles(Source(FileNames[srv_file], len)) :
           LET cf == ChunkFileOf(FileNames[srv_file],
                                 Source(FileNames[srv_file], len), cs) IN
             /\ srv_cur' = [chunk_file |-> cf, local |-> local]
             /\ srv_bad' = IF Matches(cf, local) THEN srv_bad
                           ELSE srv_bad \cup {srv_subfiles[srv_entry]}
    /\ srv_i' = 0
    /\ srv_reads' = {}
    /\ srv_pc' = "verify_chunk"
    /\ UNCHANGED <<srv_subfiles, srv_entry, srv_nfiles, srv_file, server_state,
                   srv_responses>>
    /\ UNCHANGED <<srv_token, srv_identity, srv_http>>
    /\ UNCHANGED <<dl_vars, pub_vars>>

\* One iteration of the verification loop of the current chunk file.
VerifyChunk ==
    /\ srv_pc = "verify_chunk"
    /\ LET cf == srv_cur.chunk_file
           start == srv_i * cf.chunk_size
           end == Min(start + cf.chunk_size, cf.total_bytes) - 1
       IN
         IF VerifyPanicsBeforeRead(cf, srv_i)
         THEN /\ srv_pc' = "panicked"
              /\ UNCHANGED <<srv_i, srv_file, srv_reads>>
         ELSE \E io_ok \in BOOLEAN :
           /\ srv_reads' = srv_reads \cup {<<start, end>>}
           /\ IF ~io_ok
              THEN /\ srv_pc' = "failed"
                   /\ UNCHANGED <<srv_i, srv_file>>
              ELSE IF ~verify_chunk(read_chunk(srv_cur.local, start, end),
                                    cf.chunk_hashes[srv_i + 1])
              THEN /\ srv_pc' = "panicked"
                   /\ UNCHANGED <<srv_i, srv_file>>
              ELSE IF srv_i + 1 < VerifyIters(cf)
              THEN /\ srv_i' = srv_i + 1
                   /\ UNCHANGED <<srv_pc, srv_file>>
              ELSE /\ srv_i' = 0
                   /\ srv_file' = srv_file + 1
                   /\ srv_pc' = IF srv_file < srv_nfiles
                                THEN "verify_file" ELSE "insert"
    /\ UNCHANGED <<srv_subfiles, srv_entry, srv_nfiles, srv_cur, srv_bad,
                   server_state, srv_responses>>
    /\ UNCHANGED <<srv_token, srv_identity, srv_http>>
    /\ UNCHANGED <<dl_vars, pub_vars>>

\* server_state.subfiles.insert(subfile.ipfs_hash.clone(), subfile)
InsertSubfile ==
    /\ srv_pc = "insert"
    /\ server_state' = server_state \cup {srv_subfiles[srv_entry]}
    /\ NextEntry
    /\ UNCHANGED <<srv_subfiles, srv_nfiles, srv_file, srv_cur, srv_i, srv_reads,
                   srv_bad, srv_responses>>
    /\ UNCHANGED <<srv_token, srv_identity, srv_http>>
    /\ UNCHANGED <<dl_vars, pub_vars>>

\* init_server: the context was built; the server binds and serves.
BindServer ==
    /\ srv_pc = "built"
    /\ srv_pc' = "serving"
    /\ UNCHANGED <<srv_subfiles, srv_entry, srv_nfiles, srv_file, srv_cur, srv_i,
                   srv_reads, srv_bad, server_state, srv_responses>>
    /\ UNCHANGED <<srv_token, srv_identity, srv_http>>
    /\ UNCHANGED <<dl_vars, pub_vars>>

\* `context.lock().await.subfiles.clone()`: the map the state keeps.
SubfilesAfterClone_Taken(subfiles) == {}
SubfilesAfterClone(subfiles) == subfiles

\* GET /status: the state is locked, the keys of a clone of
\* ServerState.subfiles are the body.
Status ==
    /\ srv_pc = "serving"
    /\ srv_guard = "free"
    /\ srv_responses' = srv_responses \cup {server_state}
    /\ server_state' = SubfilesAfterClone(server_state)
    /\ UNCHANGED <<srv_subfiles, srv_pc, srv_entry, srv_nfiles, srv_file, srv_cur,
                   srv_i, srv_reads, srv_bad>>
    /\ UNCHANGED <<srv_token, srv_identity, srv_http>>
    /\ UNCHANGED <<dl_vars, pub_vars>>

\* What the handlers of the other routes leave alone. Of the exchanges on
\* /subfiles/id/ and the replies on these routes only the latest is kept.
HandlerFrame ==
    /\ srv_exchange' = NoExchange
    /\ UNCHANGED <<srv_subfiles, srv_pc, srv_entry, srv_nfiles, srv_file, srv_cur,
                   srv_i, srv_reads, srv_bad, server_state, srv_responses>>
    /\ UNCHANGED <<srv_token, srv_identity, srv_guard, srv_serving>>
    /\ UNCHANGED <<dl_vars, pub_vars>>

\* GET /: answered without the state.
Root ==
    /\ srv_pc = "serving"
    /\ srv_reply' = <<"/", 200, "Ready to roll!">>
    /\ HandlerFrame

\* GET /health: answered without the state.
HealthRoute ==
    /\ srv_pc = "serving"
    /\ srv_reply' = <<"/health", 200, "healthy">>
    /\ HandlerFrame

\* GET /version: the state is locked, release.version is the body.
Version ==
    /\ srv_pc = "serving"
    /\ srv_guard = "free"
    /\ srv_reply' = <<"/version", 200, srv_release>>
    /\ HandlerFrame

\* GET /operator: the state is locked, the public key is the body.
OperatorInfo ==
    /\ srv_pc = "serving"
    /\ srv_guard = "free"
    /\ srv_reply' = <<"/operator", 200, srv_operator_public_key>>
    /\ HandlerFrame

\* Any other path: 404.
RouteNotFound ==
    /\ srv_pc = "serving"
    /\ srv_reply' = <<"/unknown", NOT_FOUND, "Route not found">>
    /\ HandlerFrame

(***************************************************************************)
(* file_service: GET /subfiles/id/<id>.                                    *)
(***************************************************************************)
\* file_service for one request, up to the call of serve_file or
\* serve_file_range: `let context_ref = context.lock().await` takes the guard
\* of the state, and context_ref lives to the end of the function. A request
\* that fails a check, or whose range does not parse, returns at once (and
\* the guard is dropped); otherwise the file is served under the guard.
FileService ==
    /\ srv_pc = "serving"
    /\ srv_guard = "free"
    /\ \E req \in Requests :
         LET verdict == CheckRequest(StoredToken(srv_token), server_state, req) IN
           IF verdict # <<>>
           THEN /\ srv_exchange' = HttpResponse(req, verdict[1], FALSE)
                /\ UNCHANGED <<srv_guard, srv_serving>>
           ELSE IF /\ req.content_range # Absent
                   /\ parse_range_header(req.content_range) = "Err"
           THEN /\ srv_exchange' = HandlerError(req, FALSE)
                /\ UNCHANGED <<srv_guard, srv_serving>>
           ELSE /\ srv_guard' = "held"
                /\ srv_serving' = req
                /\ srv_exchange' = NoExchange
    /\ srv_reply' = NoReply
    /\ UNCHANGED <<srv_subfiles, srv_pc, srv_entry, srv_nfiles, srv_file, srv_cur,
                   srv_i, srv_reads, srv_bad, server_state, srv_responses,
                   srv_token, srv_identity>>
    /\ UNCHANGED <<dl_vars, pub_vars>>

\* `serve_file_range(&file_path, range).await` or `serve_file(&file_path).await`
\* and the return of file_service, where context_ref is dropped.
ServeFile ==
    /\ srv_pc = "serving"
    /\ srv_serving # NoRequest
    /\ srv_exchange' \in
          IF srv_serving.content_range = Absent THEN serve_file(srv_serving)
          ELSE serve_file_range(srv_serving)
    /\ srv_guard' = "free"
    /\ srv_serving' = NoRequest
    /\ srv_reply' = NoReply
    /\ UNCHANGED <<srv_subfiles, srv_pc, srv_entry, srv_nfiles, srv_file, srv_cur,
                   srv_i, srv_reads, srv_bad, server_state, srv_responses,
                   srv_token, srv_identity>>
    /\ UNCHANGED <<dl_vars, pub_vars>>

ServerNext ==
    \/ FileService
    \/ ServeFile
    \/ Root
    \/ HealthRoute
    \/ Version
    \/ OperatorInfo
    \/ RouteNotFound
    \/ InitializeContext
    \/ ReadSubfile
    \/ BeginVerifyFile
    \/ VerifyChunk
    \/ InsertSubfile
    \/ BindServer
    \/ Status

ServerInit == SrvInit /\ DlIdle /\ PubIdle

ServerSpec == ServerInit /\ [][ServerNext]_vars


(***************************************************************************)
(* Subfile publisher: publish, hash_and_publish_files and                  *)
(* hash_and_publish_file.                                                  *)
(***************************************************************************)
\* The hashes the store may return for an added document.
StoreHashes == {"QmX", "QmY"}

\* The files of config.read_dir.
PublishedLength(name) == IF name = FileNames[1] THEN MaxBytes ELSE 1

\* The configurations tried: up to two file names, a name twice included.
PubInit ==
    /\ pub_file_names \in
          UNION {[1..n -> {FileNames[j] : j \in 1..Len(FileNames)}] : n \in 0..2}
    /\ pub_chunk_size \in 1..MaxChunkSize
    /\ pub_pc = "build"
    /\ pub_i = 1
    /\ pub_yaml = NoDocument
    /\ root_hashes = <<>>
    /\ pub_store = <<>>
    /\ pub_result = "none"

\* The documents of the publisher: the yaml of a ChunkFile and of a
\* SubfileManifest (the configured metadata of the manifest is left out).
ChunkFileDocument(cf) == [kind |-> "chunk_file", chunk_file |-> cf, files |-> <<>>]
ManifestDocument(file_meta_info) ==
    [kind |-> "manifest", chunk_file |-> NoDocument.chunk_file,
     files |-> file_meta_info]

\* `FileMetaInfo { name: file_name.to_string(), hash: ipfs_hash }`
FileMetaInfo_HashOfFirst(name, hash) ==
    [name |-> name, hash |-> IF pub_store = <<>> THEN hash ELSE pub_store[1].hash]
FileMetaInfo(name, hash) == [name |-> name, hash |-> hash]

\* `self.hash_and_publish_file(file_name).await?`: where the loop goes when
\* the file could not be built or added.
AfterFileError_NextFile == "build"
AfterFileError == "done"

\* hash_and_publish_file returned the error err for file pub_i.
FileError(err) ==
    /\ pub_pc' = AfterFileError
    /\ IF pub_pc' = "done"
       THEN pub_result' = err /\ pub_i' = pub_i
       ELSE pub_result' = pub_result /\ pub_i' = pub_i + 1
    /\ pub_yaml' = NoDocument
    /\ UNCHANGED <<root_hashes, pub_store>>

\* write_chunk_file(file_name): ChunkFile::new reads and chunks the file and
\* to_string serializes it; both can fail.
WriteChunkFile ==
    /\ pub_pc = "build"
    /\ pub_i <= Len(pub_file_names)
    /\ \E built \in BOOLEAN :
         IF built
         THEN /\ pub_yaml' = ChunkFileDocument(
                     ChunkFileOf(pub_file_names[pub_i],
                                 Source(pub_file_names[pub_i],
                                        PublishedLength(pub_file_names[pub_i])),
                                 pub_chunk_size))
              /\ pub_pc' = "add"
              /\ UNCHANGED <<pub_i, root_hashes, pub_store, pub_result>>
         ELSE FileError("err_build")
    /\ UNCHANGED <<pub_file_names, pub_chunk_size>>
    /\ UNCHANGED <<dl_vars, srv_vars>>

\* `self.ipfs_client.add(yaml_str.as_bytes().to_vec()).await?`, and the push
\* of the FileMetaInfo with the hash of the AddResponse.
AddChunkFile ==
    /\ pub_pc = "add"
    /\ \/ \E hash \in StoreHashes :
            /\ pub_store' = Append(pub_store, [content |-> pub_yaml, hash |-> hash])
            /\ root_hashes' =
                  Append(root_hashes, FileMetaInfo(pub_file_names[pub_i], hash))
            /\ pub_i' = pub_i + 1
            /\ pub_pc' = "build"
            /\ pub_yaml' = NoDocument
            /\ UNCHANGED pub_result
       \/ FileError("err_add")
    /\ UNCHANGED <<pub_file_names, pub_chunk_size>>
    /\ UNCHANGED <<dl_vars, srv_vars>>

\* construct_subfile_manifest(meta_info) after the loop: serde_yaml can fail.
ConstructSubfileManifest ==
    /\ pub_pc = "build"
    /\ pub_i > Len(pub_file_names)
    /\ \E serialized \in BOOLEAN :
         IF serialized
         THEN /\ pub_yaml' = ManifestDocument(root_hashes)
              /\ pub_pc' = "add_manifest"
              /\ UNCHANGED pub_result
         ELSE /\ pub_yaml' = NoDocument
              /\ pub_pc' = "done"
              /\ pub_result' = "err_serialize"
    /\ UNCHANGED <<pub_file_names, pub_chunk_size, pub_i, root_hashes, pub_store>>
    /\ UNCHANGED <<dl_vars, srv_vars>>

\* publish_subfile_manifest(&manifest_yaml): the add of the manifest; publish
\* returns its hash, or the error of the add.
PublishSubfileManifest ==
    /\ pub_pc = "add_manifest"
    /\ \/ \E hash \in StoreHashes :
            /\ pub_store' = Append(pub_store, [content |-> pub_yaml, hash |-> hash])
            /\ pub_result' = hash
       \/ /\ pub_result' = "err_add_manifest"
          /\ UNCHANGED pub_store
    /\ pub_pc' = "done"
    /\ pub_yaml' = NoDocument
    /\ UNCHANGED <<pub_file_names, pub_chunk_size, pub_i, root_hashes>>
    /\ UNCHANGED <<dl_vars, srv_vars>>

PublishNext ==
    \/ WriteChunkFile
    \/ AddChunkFile
    \/ ConstructSubfileManifest
    \/ PublishSubfileManifest

PublishInit == PubInit /\ DlIdle /\ SrvIdle

PublishSpec == PublishInit /\ [][PublishNext]_vars


(***************************************************************************)
(* Claims.                                                                 *)
(***************************************************************************)
\* The endpoint a chunk task sends its requests to.
TaskEndpoint(task) == task.query_endpoint[1]

\* The bytes of chunk i of output file f.
OutputChunk(f, i) ==
    Slice(output[chunk_files[f].file_name], i * chunk_files[f].chunk_size,
          Min((i + 1) * chunk_files[f].chunk_size, chunk_files[f].total_bytes) - 1)

\* C1: whenever download_subfile has returned Ok, every chunk range
\* [i*chunk_size, min((i+1)*chunk_size, total_bytes)) of the output file of
\* every file of the manifest hashes to chunk_hashes[i], whatever the
\* interleaving of the tasks and whatever the servers answered.
C1_OkMeansEveryChunkVerifies ==
    (pc = "done" /\ result = "ok") =>
        \A f \in 1..Len(chunk_files) :
            /\ chunk_files[f].file_name \in DOMAIN output
            /\ \A i \in 0..(Len(chunk_files[f].chunk_hashes) - 1) :
                 Digest(OutputChunk(f, i)) = chunk_files[f].chunk_hashes[i + 1]

\* Two files were downloaded from arbitrary servers, one of them in two chunks.
C1_Witness ==
    /\ pc = "done" /\ result = "ok"
    /\ Len(chunk_files) = 2
    /\ Len(chunk_files[1].chunk_hashes) = 2
    /\ Len(chunk_files[2].chunk_hashes) = 1
    /\ profile["e1"] = "arbitrary"

\* C2: every write to the output file is of a body that passes verify_chunk
\* against the chunk's hash and is made at offset i*chunk_size; a task whose
\* responses all failed (not 2xx, no Content-Range, or a digest mismatch) has
\* written nothing.
C2_OnlyVerifiedBodiesAtStart ==
    /\ \A w \in write_log :
         /\ verify_chunk(w.body, chunk_files[w.file].chunk_hashes[w.chunk + 1])
         /\ w.offset = w.chunk * chunk_files[w.file].chunk_size
    /\ \A t \in DOMAIN tasks :
         tasks[t].state \in {"request", "err", "panicked"} =>
            ~ \E w \in write_log : w.file = t[1] /\ w.chunk = t[2]

\* One chunk was written while the task of the other chunk gave up after an
\* arbitrary server's bad answers.
C2_Witness ==
    /\ profile["e1"] = "arbitrary"
    /\ \E t \in DOMAIN tasks : tasks[t].state = "err" /\ tasks[t].attempts = 2
    /\ \E w \in write_log : w.chunk = 1 /\ w.offset = 2

\* C3: for every ChunkFile with total_bytes >= 1 and ceil(total_bytes/chunk_size)
\* chunk hashes, download_chunk_file spawns exactly one task per chunk index
\* and never reads chunk_hashes out of bounds.
C3_OneTaskPerChunkNoOutOfBounds ==
    (cur \in 1..Len(chunk_files) /\ query_endpoints # {}) =>
        (chunk_files[cur].total_bytes >= 1 =>
            /\ pc # "panicked"
            /\ pc = "await" =>
                 {t[2] : t \in {x \in DOMAIN tasks : x[1] = cur}}
                   = 0..(CeilDiv(chunk_files[cur].total_bytes,
                                 chunk_files[cur].chunk_size) - 1))

\* C6 as claimed: a chunk task sends at most max_retry GET requests, and a
\* task that returned the error sent exactly max_retry and wrote nothing.
C6_AtMostMaxRetryRequests ==
    \A t \in DOMAIN tasks :
        /\ Gets(tasks[t]) <= tasks[t].max_retry
        /\ tasks[t].state = "err" =>
             /\ tasks[t].attempts = tasks[t].max_retry
             /\ ~ \E w \in write_log : w.file = t[1] /\ w.chunk = t[2]

\* C6, amended: a chunk task sends at most max(1, max_retry) GET requests;
\* when every attempt fails it has sent exactly max(1, max_retry) requests,
\* has written nothing and returns the error.
C6_AtMostMaxOneMaxRetryRequests ==
    \A t \in DOMAIN tasks :
        /\ Gets(tasks[t]) <= Max(1, tasks[t].max_retry)
        /\ tasks[t].state = "err" =>
             /\ tasks[t].attempts = Max(1, tasks[t].max_retry)
             /\ ~ \E w \in write_log : w.file = t[1] /\ w.chunk = t[2]
        /\ (tasks[t].state = "request" /\ tasks[t].auth_token # "None") =>
             tasks[t].attempts < Max(1, tasks[t].max_retry)

\* A server returned wrong bytes on every attempt: the task tried
\* max_retry = MaxRetryBound times and gave up without a write.
C6_Witness ==
    /\ chunk_max_retry = MaxRetryBound
    /\ profile = P_CorruptAndHonest
    /\ \E t \in DOMAIN tasks :
         /\ TaskEndpoint(tasks[t]) = "e1"
         /\ tasks[t].state = "err"
         /\ tasks[t].attempts = MaxRetryBound
    /\ write_log = {}

\* C7: with an endpoint that answers every chunk request with 500 and one that
\* serves the right bytes, both returned by the probe, the download of the
\* file succeeds and the output equals the source (for a file whose length
\* is not a multiple of chunk_size, so that every chunk index has a hash, and
\* when no read of the output file's metadata failed).
C7_SurvivorCompletesDownload ==
    (/\ profile = P_FailingAndHonest
     /\ free_query_auth_token # "None"
     /\ pc = "done"
     /\ Len(file_results) = Len(chunk_files)
     /\ Len(chunk_files) >= 1
     /\ file_results[Len(file_results)] # "err_metadata"
     /\ chunk_files[Len(chunk_files)].total_bytes
          % chunk_files[Len(chunk_files)].chunk_size # 0
     /\ query_endpoints = {IndexerEndpoint(e) : e \in Endpoints})
    => /\ file_results[Len(file_results)] = "ok"
       /\ output[chunk_files[Len(chunk_files)].file_name]
            = SourceOf(chunk_files[Len(chunk_files)])

\* C8: after a chunk task that targeted endpoint u has failed, u is in the
\* blocklist in the form check_availability filters on (the url of u).
C8_FailedEndpointFilteredLater ==
    \A t \in DOMAIN tasks :
        tasks[t].state = "err" =>
            BaseUrl(TaskEndpoint(tasks[t])) \in indexer_blocklist

\* C9 as claimed: a step of a chunk task whose attempts fail on integrity only
\* (its endpoint always answers 2xx with Content-Range and wrong bytes) leaves
\* the blocklist unchanged, also when the retries are exhausted.
C9_IntegrityFailureNeverBlocklists ==
    [][\A t \in DOMAIN tasks :
          (/\ profile[TaskEndpoint(tasks[t])] = "corrupt"
           /\ tasks[t].state = "request"
           /\ t \in DOMAIN tasks'
           /\ tasks'[t] # tasks[t])
          => indexer_blocklist' = indexer_blocklist]_vars

\* C9, amended: a failed attempt of such a task leaves the blocklist unchanged
\* as long as retries remain; the attempt that exhausts the retries adds the
\* url the task requested (endpoint + "/subfiles/id/" + manifest hash) to
\* the blocklist, as it does after transport failures.
C9_IntegrityFailureBlocklistsOnExhaustion ==
    [][\A t \in DOMAIN tasks :
          (/\ profile[TaskEndpoint(tasks[t])] = "corrupt"
           /\ tasks[t].auth_token # "None"
           /\ tasks[t].state = "request"
           /\ t \in DOMAIN tasks'
           /\ tasks'[t] # tasks[t])
          => IF tasks[t].attempts + 1 >= Max(1, tasks[t].max_retry)
             THEN /\ tasks'[t].state = "err"
                  /\ indexer_blocklist' =
                       indexer_blocklist \cup {tasks[t].query_endpoint}
             ELSE /\ tasks'[t].state = "request"
                  /\ indexer_blocklist' = indexer_blocklist]_vars

\* A task retried after a digest mismatch, then gave up: its request url is
\* on the blocklist, the url of its endpoint is not.
C9_Witness ==
    /\ profile = P_CorruptAndHonest
    /\ \E t \in DOMAIN tasks :
         /\ TaskEndpoint(tasks[t]) = "e1"
         /\ tasks[t].state = "err"
         /\ tasks[t].attempts >= 2
         /\ tasks[t].query_endpoint \in indexer_blocklist
    /\ BaseUrl("e1") \notin indexer_blocklist

\* C10: every endpoint probed by check_availability (a candidate that was not
\* in the blocklist when the call started) whose /status or /operator check
\* failed is in the blocklist, and is not among the endpoints returned.
C10_FailedProbeBlocklistedAndDropped ==
    \A e \in filtered_endpoints :
        probe[e] \in StatusFailures \cup OperatorFailures \cup {"failed"} =>
            /\ BaseUrl(e) \in indexer_blocklist
            /\ IndexerEndpoint(e) \notin query_endpoints

\* check_availability returned: one endpoint failed its probe, the other passed.
C10_Witness ==
    /\ pc = "create_file"
    /\ filtered_endpoints = Endpoints
    /\ probe["e1"] = "failed"
    /\ probe["e2"] = "ok"
    /\ query_endpoints = {IndexerEndpoint("e2")}

\* C11: check_availability sends no request to an endpoint whose url is in the
\* blocklist when the call starts (such an endpoint is skipped until the next
\* call), and every pair it returns is of a static endpoint that was not in
\* the blocklist at the start and whose /status and /operator probes both
\* succeeded.
C11_ProbesOnlyUnblockedEndpoints ==
    [][/\ (pc = "check_availability" /\ pc' # pc) =>
            \A e \in Endpoints :
                BaseUrl(e) \in indexer_blocklist =>
                    probe'[e] = "skipped" /\ e \notin filtered_endpoints'
       /\ \A e \in Endpoints :
            (probe[e] = "skipped" /\ pc # "check_availability") =>
                probe'[e] = "skipped"
       /\ (pc = "probing" /\ pc' = "create_file") =>
            \A q \in query_endpoints' :
                \E e \in static_endpoints \cap filtered_endpoints :
                    q = IndexerEndpoint(e) /\ probe[e] = "ok"]_vars

\* A second check_availability call returned the one endpoint that was not
\* blocklisted by the first call, without probing the blocklisted one.
C11_Witness ==
    /\ pc = "create_file"
    /\ BaseUrl("e1") \in indexer_blocklist
    /\ probe["e1"] = "skipped"
    /\ probe["e2"] = "ok"
    /\ query_endpoints = {IndexerEndpoint("e2")}

\* C12: when check_availability has returned no endpoint for a file,
\* download_chunk_file spawns no chunk task for it (so no ranged GET is sent)
\* and returns an error, and download_subfile returns an error.
C12_EmptyProbeFailsFile ==
    /\ [](/\ (pc = "spawn" /\ query_endpoints = {}) =>
               (next_i = 0 /\ \A t \in DOMAIN tasks : t[1] # cur)
          /\ \A k \in 1..Len(file_results) :
               file_results[k] = "err_range_request" =>
                  /\ \A t \in DOMAIN tasks : t[1] # k
                  /\ pc = "done" => result \notin {"ok", "none"})
    /\ [][(pc = "spawn" /\ query_endpoints = {} /\ pc' # pc) =>
            /\ Len(file_results') = Len(file_results) + 1
            /\ file_results'[Len(file_results')] = "err_range_request"
            /\ tasks' = tasks
            /\ pc' = "done" => result' \notin {"ok", "none"}]_vars

\* Every endpoint failed its probe: the file failed without any chunk task.
C12_Witness ==
    /\ pc = "done"
    /\ result = "err_incomplete"
    /\ file_results = <<"err_range_request">>
    /\ \A e \in Endpoints : probe[e] = "failed"
    /\ tasks = <<>>

\* download_chunk_file got to spawn its chunk tasks, one for every chunk of the
\* file, and every task of the file has returned Ok.
AllChunkTasksOk ==
    /\ \E t \in DOMAIN tasks : t[1] = cur
    /\ \A i \in 0..(Len(chunk_files[cur].chunk_hashes) - 1) :
         <<cur, i>> \in DOMAIN tasks
    /\ \A t \in DOMAIN tasks : t[1] = cur => tasks[t].state = "ok"

\* download_chunk_file returns in this step.
ChunkFileReturns == Len(file_results') = Len(file_results) + 1

\* download_subfile has returned Ok exactly if download_chunk_file was called
\* and returned Ok for every file of the manifest.
SubfileOkIffAllFilesOk ==
    pc = "done" =>
        (result = "ok" <=>
            /\ result # "err_cat"
            /\ Len(file_results) = Len(chunk_files)
            /\ \A k \in 1..Len(file_results) : file_results[k] = "ok")

\* C13 as claimed: download_subfile returns Ok iff every download_chunk_file
\* returned Ok, and download_chunk_file returns Ok iff every one of its chunk
\* tasks returned Ok.
C13_OkIffAllTasksOk ==
    /\ []SubfileOkIffAllFilesOk
    /\ [][ChunkFileReturns =>
            (file_results'[Len(file_results')] = "ok" <=> AllChunkTasksOk)]_vars

\* C13, amended: download_subfile returns Ok iff every download_chunk_file
\* returned Ok; download_chunk_file returns Ok only if it spawned its chunk
\* tasks and every one of them returned Ok, and when they all did it returns
\* Ok unless reading the metadata of the output file failed.
C13_OkIffAllTasksOkAndMetadataRead ==
    /\ []SubfileOkIffAllFilesOk
    /\ [][ChunkFileReturns =>
            /\ file_results'[Len(file_results')] = "ok" => AllChunkTasksOk
            /\ AllChunkTasksOk =>
                 file_results'[Len(file_results')] \in {"ok", "err_metadata"}]_vars

\* The first file was downloaded, a chunk of the second failed its retries.
C13_Witness ==
    /\ pc = "done"
    /\ result = "err_incomplete"
    /\ file_results = <<"ok", "err_failed_chunks">>

\* C14: when a chunk task of a file has failed all its retries, the file's
\* download_chunk_file returns an error, and download_subfile goes on with the
\* next file of the manifest; it returns (an error) only after the last file.
C14_FailedFileDoesNotStopLaterFiles ==
    /\ [](/\ pc = "await" =>
               \A i \in 0..(handle_i - 1) :
                   tasks[<<cur, i>>].state = "err" => i \in failed
          /\ (pc = "done" /\ \E k \in 1..Len(file_results) :
                                  file_results[k] = "err_failed_chunks")
                => Len(file_results) = Len(chunk_files) /\ result = "err_incomplete")
    /\ [][(/\ pc = "await"
           /\ ChunkFileReturns
           /\ \E t \in DOMAIN tasks : t[1] = cur /\ tasks[t].state = "err") =>
             /\ file_results'[Len(file_results')] # "ok"
             /\ IF cur < Len(chunk_files)
                THEN pc' = "fetch_chunk_file" /\ cur' = cur + 1
                ELSE pc' = "done" /\ result' = "err_incomplete"]_vars

\* A chunk of the first file failed its retries; the second file was then
\* downloaded.
C14_Witness ==
    /\ pc = "done"
    /\ file_results = <<"err_failed_chunks", "ok">>
    /\ result = "err_incomplete"

\* C15: a failed cat of the manifest makes download_subfile return the error
\* with nothing probed, created or requested; a failed cat of a ChunkFile
\* makes download_chunk_file return the error without probing any endpoint,
\* creating the output file or spawning a task, and download_subfile then
\* returns an error; download_subfile returns Ok only when every file was
\* fetched and its output created.
C15_CatFailureFailsDownload ==
    /\ [](pc = "done" =>
            /\ result = "ok" =>
                 /\ Len(file_results) = Len(chunk_files)
                 /\ \A k \in 1..Len(chunk_files) :
                      chunk_files[k].file_name \in DOMAIN output
            /\ result = "err_cat" =>
                 /\ file_results = <<>> /\ output = <<>> /\ tasks = <<>>
                 /\ indexer_blocklist = {}
                 /\ \A e \in Endpoints : probe[e] = "idle"
            /\ (\E k \in 1..Len(file_results) : file_results[k] = "err_cat")
                 => result = "err_incomplete")
    /\ [][(pc = "fetch_chunk_file" /\ ChunkFileReturns) =>
            /\ file_results'[Len(file_results')] = "err_cat"
            /\ output' = output /\ write_log' = write_log /\ tasks' = tasks
            /\ probe' = probe /\ filtered_endpoints' = filtered_endpoints
            /\ indexer_blocklist' = indexer_blocklist]_vars

\* The cat of the first file's ChunkFile failed: no output file for it; the
\* second file was downloaded.
C15_Witness ==
    /\ pc = "done"
    /\ result = "err_incomplete"
    /\ file_results = <<"err_cat", "ok">>
    /\ chunk_files[1].file_name \notin DOMAIN output

\* C16: when every chunk task of a file has returned Ok, the output file holds
\* the bytes of the published file, in whatever order the tasks wrote.
C16_ContentIndependentOfCompletionOrder ==
    (/\ pc = "await"
     /\ handle_i = NumIters(chunk_files[cur])
     /\ failed = {}) =>
        output[chunk_files[cur].file_name] = SourceOf(chunk_files[cur])

\* Both chunk tasks of a file returned Ok, and the first chunk was written
\* last: the file handle's position is the end of the first chunk.
C16_Witness ==
    /\ pc = "await"
    /\ handle_i = NumIters(chunk_files[cur])
    /\ failed = {}
    /\ Len(chunk_files[cur].chunk_hashes) = 2
    /\ cursor[cur] = chunk_files[cur].chunk_size

\* C17: after the caller has dropped the future of download_subfile, no chunk
\* task that is suspended resumes: it sends no further GET, takes no lock,
\* and so writes nothing and changes neither blocklist nor pending map.
C17_DroppedFutureStopsTasks ==
    [][pc = "dropped" =>
          \A t \in DOMAIN tasks :
              SuspendedTask(tasks[t]) => tasks'[t] = tasks[t]]_vars

\* C4: startup does not abort on a local file of at least one byte whose bytes
\* match the digests of its ChunkFile, and local verification reads chunk
\* ranges only.
C4_MatchingFilesPassVerification ==
    (srv_pc \in {"verify_chunk", "panicked"}
        /\ srv_cur.chunk_file.total_bytes >= 1
        /\ Matches(srv_cur.chunk_file, srv_cur.local)) =>
        /\ srv_pc # "panicked"
        /\ srv_reads \subseteq ChunkRanges(srv_cur.chunk_file)

\* C5: if any chunk of a local file is off its digest, startup aborts: the
\* context is never built, the server never binds and answers no request; every
\* manifest hash in ServerState or in a /status response was verified.
C5_MismatchAbortsStartup ==
    /\ srv_bad # {} =>
         /\ srv_pc \notin {"insert", "built", "serving"}
         /\ srv_responses = {}
         /\ srv_exchange = NoExchange
         /\ srv_serving = NoRequest
         /\ srv_reply = NoReply
    /\ server_state \cap srv_bad = {}
    /\ \A r \in srv_responses : r \cap srv_bad = {}

\* Startup panicked on the second subfile, whose last chunk is off its digest,
\* after the first subfile had been verified and inserted.
C5_Witness ==
    /\ srv_pc = "panicked"
    /\ srv_bad = {"QmB"}
    /\ server_state = {"QmA"}
    /\ srv_i >= 1


\* The request of the last exchange carries the Authorization header the
\* server accepts, and names a manifest the server serves.
Authorized(req) ==
    srv_token = "None" \/ req.authorization = Bearer(srv_token)
Served(req) == req.id \in server_state

\* C18: with a token configured, a request on /subfiles/id/ whose Authorization
\* header is not exactly "Bearer " + token (an absent header included) is
\* answered 401 and no file is opened; with no token configured, and for the
\* exact header, no request is answered 401.
C18_TokenGuardsFileService ==
    srv_exchange # NoExchange =>
        /\ (srv_token # "None"
              /\ srv_exchange.req.authorization # <<"Bearer ", srv_token>>) =>
             /\ srv_exchange.kind = "response"
             /\ srv_exchange.status = 401
             /\ ~srv_exchange.opened
        /\ (srv_token = "None"
              \/ srv_exchange.req.authorization = <<"Bearer ", srv_token>>) =>
             ~(srv_exchange.kind = "response" /\ srv_exchange.status = 401)

\* A request carrying the bare token, without "Bearer ", was answered 401.
C18_Witness ==
    /\ srv_exchange # NoExchange
    /\ srv_token = "free-token"
    /\ srv_exchange.req.authorization = <<"free-token">>
    /\ srv_exchange.req.id \in server_state
    /\ srv_exchange.status = 401

\* C19: a request is checked for authorization, then for the manifest, then
\* for the file_name header: the first check that fails gives the response
\* (401, else 404, else 406), and a file is opened only when all three passed.
C19_ChecksInFixedOrder ==
    srv_exchange # NoExchange =>
        LET req == srv_exchange.req IN
        /\ ~Authorized(req) =>
             srv_exchange.kind = "response" /\ srv_exchange.status = 401
        /\ (Authorized(req) /\ ~Served(req)) =>
             srv_exchange.kind = "response" /\ srv_exchange.status = 404
        /\ (Authorized(req) /\ Served(req) /\ req.file_name = "None") =>
             srv_exchange.kind = "response" /\ srv_exchange.status = 406
        /\ srv_exchange.opened =>
             Authorized(req) /\ Served(req) /\ req.file_name # "None"

\* An unauthorized request for an unknown manifest without file_name header
\* was answered 401.
C19_Witness ==
    /\ srv_exchange # NoExchange
    /\ ~Authorized(srv_exchange.req)
    /\ ~Served(srv_exchange.req)
    /\ srv_exchange.req.file_name = "None"
    /\ srv_exchange.status = 401

\* C20: an authorized request for a served manifest with a file_name header
\* and a Content-Range header of invalid syntax is answered with a response
\* of status 400.
C20_InvalidRangeAnswered400 ==
    (/\ srv_exchange # NoExchange
     /\ Authorized(srv_exchange.req)
     /\ Served(srv_exchange.req)
     /\ srv_exchange.req.file_name # "None"
     /\ srv_exchange.req.content_range = <<"bytes=x">>) =>
        srv_exchange.kind = "response" /\ srv_exchange.status = 400

\* C23: with a running reference server that hosts the manifest and an
\* unreachable endpoint, and a free-query token configured, download_subfile
\* returns Ok (unless the store or the local file system failed).
C23_ReferenceTransferSucceeds ==
    (/\ profile = P_ReferenceAndUnreachable
     /\ free_query_auth_token # "None"
     /\ Len(chunk_files) >= 1
     /\ pc = "done"
     /\ result # "err_cat"
     /\ \A k \in 1..Len(file_results) :
          file_results[k] \notin {"err_cat", "err_metadata"})
    => result = "ok"

\* The ChunkFile document of the k-th configured file name.
ConfiguredDocument(k) ==
    ChunkFileDocument(ChunkFileOf(pub_file_names[k],
                                  Source(pub_file_names[k],
                                         PublishedLength(pub_file_names[k])),
                                  pub_chunk_size))

\* C24: the manifest is added to the store only after the ChunkFile of every
\* configured file was built and added, in the configured order; when the
\* build or the add of a file fails, publish returns that error at once: the
\* files before it were added, and neither a later file nor the manifest is.
C24_NoPartialManifest ==
    /\ \A k \in 1..Len(pub_store) :
         IF pub_store[k].content.kind = "manifest"
         THEN /\ k = Len(pub_file_names) + 1
              /\ k = Len(pub_store)
         ELSE /\ k <= Len(pub_file_names)
              /\ pub_store[k].content = ConfiguredDocument(k)
    /\ pub_result \in {"err_build", "err_add"} =>
         /\ pub_pc = "done"
         /\ pub_i <= Len(pub_file_names)
         /\ Len(pub_store) = pub_i - 1
         /\ \A k \in 1..Len(pub_store) : pub_store[k].content.kind = "chunk_file"
    /\ pub_pc \in {"build", "add"} => Len(pub_store) = pub_i - 1

\* The add of the second of two files failed: the first file is in the store,
\* the manifest is not.
C24_Witness ==
    /\ pub_pc = "done"
    /\ pub_result = "err_add"
    /\ Len(pub_file_names) = 2
    /\ pub_i = 2
    /\ Len(pub_store) = 1

\* C29: when publish returns the manifest hash, the manifest it added lists
\* one FileMetaInfo per configured file name, in the configured order, with
\* that name and the hash the store returned for the ChunkFile of that file;
\* the add of the manifest is the last operation on the store.
C29_ManifestListsConfiguredFiles ==
    (pub_pc = "done" /\ pub_result \in StoreHashes) =>
        /\ Len(pub_store) = Len(pub_file_names) + 1
        /\ LET manifest == pub_store[Len(pub_store)] IN
             /\ manifest.content.kind = "manifest"
             /\ manifest.hash = pub_result
             /\ Len(manifest.content.files) = Len(pub_file_names)
             /\ \A k \in 1..Len(pub_file_names) :
                  /\ manifest.content.files[k].name = pub_file_names[k]
                  /\ manifest.content.files[k].hash = pub_store[k].hash
                  /\ pub_store[k].content = ConfiguredDocument(k)

\* Two files were published, the store returned different hashes for them.
C29_Witness ==
    /\ pub_pc = "done"
    /\ pub_result \in StoreHashes
    /\ pub_file_names = <<FileNames[1], FileNames[2]>>
    /\ pub_store[1].hash = "QmX"
    /\ pub_store[2].hash = "QmY"

C26_SeekWriteAtomic ==
    /\ \A t \in DOMAIN tasks :
         tasks[t].state = "write" =>
            /\ file_lock[t[1]] = t
            /\ cursor[t[1]] = tasks[t].start
            /\ \A u \in DOMAIN tasks :
                 (u[1] = t[1] /\ tasks[u].state = "write") => u = t
    /\ \A w \in write_log :
         w.offset = RangeStart(w.chunk, chunk_files[w.file].chunk_size)

\* A task is between seek and write while another task of the same file
\* waits for the guard with its verified body.
C26_Witness ==
    \E t \in DOMAIN tasks, u \in DOMAIN tasks :
        /\ t[1] = u[1]
        /\ tasks[t].state = "write"
        /\ tasks[u].state = "lock"
        /\ tasks[u].start # tasks[t].start

\* C27: when download_chunk_file has returned for a file, Ok or Err, every
\* chunk task it spawned for that file has ended.
C27_TasksEndedWhenFileReturns ==
    \A t \in DOMAIN tasks : t[1] <= Len(file_results) => TerminalTask(t)

\* The byte range of a chunk task.
TaskRange(task) == task.start..task.end

\* Every DownloadRangeRequest built has 0 <= start <= end < total_bytes and
\* end = min(start + chunk_size, total_bytes) - 1; the ranges of the tasks of
\* a file are pairwise disjoint, and once all were spawned they cover the file.
BuiltRangesPartitionFile ==
    /\ \A t \in DOMAIN tasks :
         LET cf == chunk_files[t[1]] IN
         /\ 0 <= tasks[t].start
         /\ tasks[t].start <= tasks[t].end
         /\ tasks[t].end < cf.total_bytes
         /\ tasks[t].end = Min(tasks[t].start + cf.chunk_size, cf.total_bytes) - 1
    /\ \A t \in DOMAIN tasks, u \in DOMAIN tasks :
         (t[1] = u[1] /\ t # u) => TaskRange(tasks[t]) \cap TaskRange(tasks[u]) = {}
    /\ pc = "await" =>
         UNION {TaskRange(tasks[t]) : t \in {x \in DOMAIN tasks : x[1] = cur}}
            = 0..(chunk_files[cur].total_bytes - 1)

\* C28: the end of every range download_range_request computes is computed
\* without unsigned underflow, a file of no bytes included, and the requests
\* built have ranges within the file that are disjoint and cover it.
C28_RangesWithoutUnderflow ==
    /\ (pc = "spawn" /\ query_endpoints # {}) =>
          ~RangeEndUnderflows(chunk_files[cur], next_i)
    /\ BuiltRangesPartitionFile

\* C30: GET /operator is sent to an endpoint only after its /status check
\* succeeded in the same probe (no failure of the endpoint was recorded); an
\* endpoint whose /status check failed is sent no /operator request; and
\* every endpoint that failed a check is in the blocklist from the step of
\* the failure on, so before check_availability returns.
C30_OperatorOnlyAfterStatus ==
    /\ [](\A e \in Endpoints :
            /\ probe[e] = "failed" => BaseUrl(e) \in indexer_blocklist
            /\ probe[e] = "operator" =>
                 (e \in filtered_endpoints /\ BaseUrl(e) \notin indexer_blocklist))
    /\ [][\A e \in Endpoints :
            /\ (probe'[e] = "operator" /\ probe[e] # "operator") =>
                 /\ probe[e] = "status"
                 /\ indexer_blocklist' = indexer_blocklist
            /\ (probe[e] = "status" /\ probe'[e] # probe[e]) =>
                 \/ probe'[e] = "operator" /\ indexer_blocklist' = indexer_blocklist
                 \/ /\ probe'[e] = "failed"
                    /\ indexer_blocklist' = indexer_blocklist \cup {BaseUrl(e)}
            /\ (probe[e] = "failed" /\ probe'[e] # probe[e]) =>
                 (pc = "check_availability" /\ probe'[e] = "skipped")]_vars

\* One endpoint passed /status and is about to be sent GET /operator, the
\* other failed a check and is in the blocklist.
C30_Witness ==
    /\ pc = "probing"
    /\ profile = [e \in Endpoints |-> "arbitrary"]
    /\ probe["e1"] = "operator"
    /\ probe["e2"] = "failed"
    /\ indexer_blocklist = {BaseUrl("e2")}

\* C31: the blocklist only grows during a download session: no step of the
\* downloader (probe, chunk task, start of the next file) removes an entry.
\* Hence an endpoint whose url a probe has put on the blocklist is not probed
\* again (its probe stays failed, then skipped), is not among the endpoints
\* a later probe returns, and no chunk task built afterwards targets it.
C31_BlocklistOnlyGrows ==
    /\ [](\A e \in Endpoints :
            BaseUrl(e) \in indexer_blocklist =>
                /\ probe[e] \in {"failed", "skipped"}
                /\ IndexerEndpoint(e) \notin query_endpoints)
    /\ [][/\ indexer_blocklist \subseteq indexer_blocklist'
          /\ \A t \in DOMAIN tasks' \ DOMAIN tasks :
                BaseUrl(TaskEndpoint(tasks'[t])) \notin indexer_blocklist]_vars

\* The probe of the first file dropped e1 and a task of that file gave up on
\* e2; the probe of the second file skipped e1, and a chunk task of the second
\* file was built for e2 with both entries still on the blocklist.
C31_Witness ==
    /\ cur = 2
    /\ probe["e1"] = "skipped"
    /\ <<2, 0>> \in DOMAIN tasks
    /\ TaskEndpoint(tasks[<<2, 0>>]) = "e2"
    /\ indexer_blocklist = {BaseUrl("e1"), QueryEndpoint(BaseUrl("e2"))}

\* C32: the endpoint of a chunk task is chosen once, when its request is
\* built, among the endpoints the probe of its file returned; the set is not
\* replaced while the file's tasks are built and awaited. No later step of the
\* task changes the url it requests, whatever the blocklist holds, and a
\* chunk index of a file is given to one task only (the loop index only
\* advances, and starts at 0 when no task of the file exists).
C32_EndpointChosenOnce ==
    [][/\ \A t \in DOMAIN tasks \cap DOMAIN tasks' :
            tasks'[t].query_endpoint = tasks[t].query_endpoint
       /\ \A t \in DOMAIN tasks' \ DOMAIN tasks :
            /\ pc = "spawn"
            /\ t = <<cur, next_i>>
            /\ next_i' = next_i + 1
            /\ \E ep \in query_endpoints :
                 tasks'[t].query_endpoint = QueryEndpoint(ep[2])
       /\ pc \in {"spawn", "await"} => query_endpoints' = query_endpoints
       /\ next_i' # next_i =>
            \/ pc = "spawn" /\ next_i' = next_i + 1
            \/ /\ pc = "create_file"
               /\ next_i' = 0
               /\ \A t \in DOMAIN tasks : t[1] # cur]_vars

\* A task gave up on an endpoint and put the url it requested on the
\* blocklist, while another task of the file, built for the same endpoint,
\* has retried and is about to request that url again.
C32_Witness ==
    \E t, u \in DOMAIN tasks :
        /\ t[1] = u[1]
        /\ t # u
        /\ tasks[t].query_endpoint = tasks[u].query_endpoint
        /\ tasks[u].state = "err"
        /\ tasks[u].query_endpoint \in indexer_blocklist
        /\ tasks[t].state = "request"
        /\ tasks[t].attempts >= 1
        /\ Cardinality(query_endpoints) = 2

\* C33: download_chunk_file cats the ChunkFile, then probes the endpoints,
\* then creates (truncates) the output file, then builds and spawns the tasks:
\* each of these positions is entered from the one before it only, the file
\* is truncated at File::create only, and tasks appear in the spawning loop
\* only. Hence when download_chunk_file returns the error of a probe that
\* returned no endpoint, the output file was created by this call and holds
\* nothing but what was written to it since (nothing, unless a task left over
\* from an earlier entry of the same name wrote to it), and the file has no
\* chunk task.
C33_FileCreatedBeforeTasks ==
    [][/\ (pc' = "check_availability" /\ pc' # pc) => pc = "fetch_chunk_file"
       /\ (pc' = "probing" /\ pc' # pc) => pc = "check_availability"
       /\ (pc' = "create_file" /\ pc' # pc) => pc = "probing"
       /\ (pc' = "spawn" /\ pc' # pc) => pc = "create_file"
       /\ DOMAIN tasks' \ DOMAIN tasks # {} => pc = "spawn"
       /\ (pc = "create_file" /\ pc' # pc) =>
            output'[chunk_files[cur].file_name] = <<>>
       /\ (pc # "create_file" /\ output' # output) =>
            \E t \in DOMAIN tasks : tasks[t].state = "write"
       /\ (pc = "spawn" /\ query_endpoints = {}) =>
            /\ DOMAIN tasks' = DOMAIN tasks
            /\ \A t \in DOMAIN tasks : t[1] # cur
            /\ pc' # pc =>
                 /\ file_results' = Append(file_results, "err_range_request")
                 /\ cur \in DOMAIN file_lock
                 /\ chunk_files[cur].file_name \in DOMAIN output'
                 /\ write_log = {} =>
                      output'[chunk_files[cur].file_name] = <<>>]_vars

\* The manifest names one file twice. Its first download wrote the bytes of
\* the file; the probe of the second returned no endpoint, and the second
\* download returned its error with the file truncated to nothing.
C33_Witness ==
    /\ file_results = <<"ok", "err_range_request">>
    /\ chunk_files[1].file_name = chunk_files[2].file_name
    /\ chunk_files[1].total_bytes > 0
    /\ write_log = {}
    /\ output[chunk_files[2].file_name] = <<>>

\* C34: a downloader constructed without free_query_auth_token sends no
\* ranged GET: each chunk task counts no attempt and ends, if it has run, by
\* the panic of request_chunk; no byte is written to an output file; the
\* collecting loop gets no further than its first handle, whose JoinError it
\* returns, so no download_chunk_file call returns Ok and download_subfile
\* does not return Ok once a file was tried; the blocklist holds only the urls
\* inserted by probes and the pending map has no entry made by a task.
C34_NoTokenNoRequest ==
    free_query_auth_token = "None" =>
        /\ \A t \in DOMAIN tasks :
              /\ tasks[t].state \in {"request", "panicked"}
              /\ Gets(tasks[t]) = 0
        /\ write_log = {}
        /\ \A name \in DOMAIN output : output[name] = <<>>
        /\ (pc = "await" => handle_i = 0 /\ failed = {})
        /\ \A k \in 1..Len(file_results) :
              file_results[k] \in {"err_cat", "err_range_request", "err_join"}
        /\ (result = "ok" => file_results = <<>>)
        /\ indexer_blocklist \subseteq {BaseUrl(e) : e \in Endpoints}
        /\ chunks_to_download = <<>>

\* Without a token, both tasks of a two-chunk file were spawned for an
\* endpoint that passed the probe; the first panicked in request_chunk and
\* download_chunk_file returned the JoinError, the second has panicked since.
C34_Witness ==
    /\ free_query_auth_token = "None"
    /\ file_results = <<"err_join">>
    /\ result = "err_incomplete"
    /\ DOMAIN tasks = {<<1, 0>>, <<1, 1>>}
    /\ \A t \in DOMAIN tasks : tasks[t].state = "panicked"
    /\ indexer_blocklist = {}

\* C35: when every store cat and every HTTP request returns, every chunk
\* task sends at most max(1, max_retry) requests and ends, and download_subfile
\* eventually returns.
C35_DownloadTerminates ==
    /\ [](\A t \in DOMAIN tasks : Gets(tasks[t]) <= Max(1, tasks[t].max_retry))
    /\ \A t \in TaskIds :
          (t \in DOMAIN tasks) ~> (t \notin DOMAIN tasks \/ TerminalTask(t))
    /\ <>(pc = "done" /\ result # "none")

\* C36: the downloader does not deadlock on the guards of the output file, of
\* the pending map and of the blocklist. The guard of an output file is only
\* ever held by a chunk task of that file between its seek and its write, a
\* step that waits for nothing; a task that waits (for the output file, for
\* the pending map, or in the sleep before a retry) or has ended holds no
\* guard; the guards of the pending map and of the blocklist are taken and
\* released within one step. So whenever a task or the collecting loop waits
\* for the guard of an output file, the guard is free or its holder can write
\* and release it.
C36_NoGuardHeldWhileWaiting ==
    /\ \A f \in DOMAIN file_lock :
          file_lock[f] # Unlocked =>
             /\ file_lock[f] \in DOMAIN tasks
             /\ file_lock[f][1] = f
             /\ tasks[file_lock[f]].state = "write"
             /\ ENABLED TaskWrite(file_lock[f])
    /\ \A t \in DOMAIN tasks :
          tasks[t].state # "write" =>
             \A f \in DOMAIN file_lock : file_lock[f] # t

\* The collecting loop waits for the guard of the output file to read the
\* metadata after the first task ended Ok, while the second task holds the
\* guard between its seek and its write.
C36_Witness ==
    /\ pc = "await"
    /\ handle_i = 0
    /\ <<cur, 0>> \in DOMAIN tasks
    /\ tasks[<<cur, 0>>].state = "ok"
    /\ file_lock[cur] = <<cur, 1>>

\* chunks_to_download() has returned Ok and download_subfile has not started:
\* every file of the manifest has its entry, with index 0 in it (an entry
\* made before a failed cat has no index).
PendingPopulated ==
    /\ pc = "start"
    /\ Len(chunk_files) >= 1
    /\ \A f \in 1..Len(chunk_files) :
          0 \in Pending(ChunkFileHash(chunk_files[f]))

\* The chunk indices of the first file whose task has ended Ok: after a
\* return at the end of the collecting loop, all but those pushed to
\* `failed`; after an earlier return, those of the tasks that have ended Ok.
SucceededChunks ==
    IF file_results[1] \in {"ok", "err_failed_chunks"}
    THEN (0..(NumIters(chunk_files[1]) - 1)) \ failed
    ELSE {i \in 0..(NumIters(chunk_files[1]) - 1) :
            <<1, i>> \in DOMAIN tasks /\ tasks[<<1, i>>].state = "ok"}

C21_GuardFreeWhileServing ==
    srv_serving # NoRequest => srv_guard = "free"

\* The ServerState as the handlers see it.
ServerStateNow ==
    [subfiles              |-> server_state,
     operator_public_key   |-> srv_operator_public_key,
     release               |-> srv_release,
     free_query_auth_token |-> StoredToken(srv_token)]

\* C22: once the server serves, no request handler of any route changes the
\* ServerState (subfiles, operator_public_key, release,
\* free_query_auth_token), and every /status response lists the same manifest
\* hashes, those of the state.
C22_HandlersLeaveServerState ==
    /\ [](\A r \in srv_responses : r = server_state)
    /\ [][srv_pc = "serving" => ServerStateNow' = ServerStateNow]_vars

\* /status was answered and then a file of a served manifest was read, with
\* both manifests still in the state.
C22_Witness ==
    /\ srv_pc = "serving"
    /\ srv_responses = {{"QmA", "QmB"}}
    /\ server_state = {"QmA", "QmB"}
    /\ srv_exchange.kind = "response"
    /\ srv_exchange.opened

====
